---- MODULE Spec2Model ----
(***************************************************************************)
(* A model of prometheus-weathermen: the HTTP Basic authenticator          *)
(* (src/authentication.rs), the cached upstream request with its per-host  *)
(* circuit breaker (src/providers/http_request.rs) and the scrape fan-out  *)
(* (src/http_server.rs).                                                   *)
(***************************************************************************)
EXTENDS Integers, Sequences, FiniteSets, TLC

(***************************************************************************)
(* Bounds of the model.                                                    *)
(***************************************************************************)
MaxAuthCalls == 3
NumThreads == 2
MaxCalls == 5
MaxTicks == 1
MaxStations == 3
MaxAccept == 3
MaxWeathers == 2
MaxScrapes == 2
MaxLine == 6
MaxRows == 2

(***************************************************************************)
(* Option<T> is modelled as a set with at most one element:                *)
(* None == {} and Some(x) == {x}.                                          *)
(***************************************************************************)
None == {}
Some(x) == {x}

SetMax(S) == CHOOSE m \in S : \A n \in S : n <= m

(***************************************************************************)
(* Authentication (src/authentication.rs)                                  *)
(***************************************************************************)
BCRYPT_DEFAULT_PASSWORD == "fakepassword"
BCRYPT_DEFAULT_COST == 12
BCRYPT_MIN_COST == 4
BCRYPT_MAX_COST == 31

\* Usernames a store may hold and usernames a client may present.
StoreUsernames == {"joanna", "bob"}
PresentedUsernames == StoreUsernames \cup {"mallory"}
Passwords == {"secret", "incorrect", BCRYPT_DEFAULT_PASSWORD}

\* The cost field of a hash string "$2y$<cost>$...", as Hash::cost parses it:
\* None when the third '$'-separated part is missing or is not a number.
HashCosts == {None, Some(3), Some(4), Some(5), Some(32)}

\* A bcrypt hash string: its parsed cost field and the password it was made of.
Hashes == [cost : HashCosts, pw : {"secret", BCRYPT_DEFAULT_PASSWORD}]

Hash_cost(hash) == hash.cost

\* A credentials store: a map username -> hash.
CredentialsStores == UNION {[U -> Hashes] : U \in SUBSET StoreUsernames}

\* CredentialsStore::max_cost: values().map(Hash::cost).max().flatten();
\* Option orders None below every Some, so the maximum is None only when the
\* store is empty or no hash has a parsable cost.
max_cost(store) ==
    LET costs == UNION {Hash_cost(store[u]) : u \in DOMAIN store}
    IN  IF costs = {} THEN None ELSE Some(SetMax(costs))

\* bcrypt::hash fails for a cost outside MIN_COST..=MAX_COST.
bcrypt_hash_ok(cost) == cost >= BCRYPT_MIN_COST /\ cost <= BCRYPT_MAX_COST

unwrap_or(opt, default) == IF opt = None THEN default ELSE CHOOSE c \in opt : TRUE

\* CredentialsStore::hash_default_password: hash the sentinel password with
\* the given cost, falling back to the default cost when hashing fails.
hash_default_password_NoFallback(cost) ==
    [cost |-> Some(unwrap_or(cost, BCRYPT_DEFAULT_COST)), pw |-> BCRYPT_DEFAULT_PASSWORD]

hash_default_password(cost) ==
    IF bcrypt_hash_ok(unwrap_or(cost, BCRYPT_DEFAULT_COST))
    THEN [cost |-> Some(unwrap_or(cost, BCRYPT_DEFAULT_COST)), pw |-> BCRYPT_DEFAULT_PASSWORD]
    ELSE [cost |-> Some(BCRYPT_DEFAULT_COST), pw |-> BCRYPT_DEFAULT_PASSWORD]

\* bcrypt::verify(password, hash): Err when the hash has no parsable cost or
\* a cost bcrypt does not allow, otherwise whether the password matches.
bcrypt_verify(password, hash) ==
    IF hash.cost = None THEN "Err"
    ELSE IF ~bcrypt_hash_ok(unwrap_or(hash.cost, 0)) THEN "Err"
    ELSE IF password = hash.pw THEN "true" ELSE "false"

\* The init closure of authenticate: the outcome for a bcrypt::verify result.
verify_outcome_ErrGranted(r) == IF r = "false" THEN "Forbidden" ELSE "Succeeded"

verify_outcome(r) == IF r = "true" THEN "Succeeded" ELSE "Forbidden"

\* The replace_if closure handed to or_insert_with_if: Result::is_err.
replace_if_Never(value) == FALSE

replace_if(value) == value = "Forbidden"

AuthPairs == PresentedUsernames \X Passwords
BasicAuths == [username : PresentedUsernames, password : Passwords]

VARIABLES
    credentials_store,      \* Option<CredentialsStore> of the configuration
    AUTHENTICATION_CACHE,   \* (username, password) -> "absent" | outcome
    BCRYPT_DEFAULT_HASH,    \* OnceCell<Hash>: None until first use
    authLast,               \* the last maybe_authenticate call and its effects
    authReturned,           \* per pair, the outcomes returned so far
    authCalls               \* number of maybe_authenticate calls made

authVars == <<credentials_store, AUTHENTICATION_CACHE, BCRYPT_DEFAULT_HASH,
              authLast, authReturned, authCalls>>

VARIABLES
    refresh_interval,   \* Option<Duration>: the provider's configured TTL
    request_urls,       \* the URLs the provider requests
    now,                \* the clock, in seconds
    cache,              \* key -> None | Some([body, stored])
    registry,           \* CIRCUIT_BREAKER_REGISTRY: the hosts that have a breaker
    breaker,            \* host -> state machine of the host's breaker
    running,            \* the calls in progress: per position and key, how many
    last,               \* the result of the call that returned at the last step
    streak,             \* host -> upstream failures since the last success
    calls,              \* number of request_cached calls started
    ticks               \* number of steps the clock has made

httpVars == <<refresh_interval, request_urls, now, cache, registry, breaker, running,
              last, streak, calls, ticks>>

VARIABLES
    scrape,     \* position of serve_metrics: "idle", "waiting" or "responded"
    format,     \* the format negotiated for the scrape
    unit,       \* task -> "unspawned", "running", or the outcome of its unit
    joined,     \* the tasks wait_for_metrics has taken from the join set
    weather,    \* the records wait_for_metrics has collected
    response,   \* None | Some(response of the scrape)
    stored,     \* the tasks whose body is in the cache of their provider
    detached    \* the tasks whose units ran on when the scrape was cancelled

scrapeVars == <<scrape, format, unit, joined, weather, response, stored, detached>>

VARIABLES
    config,         \* the Config that was read: providers and locations
    build,          \* the build: width of usize, and whether overflow is checked
    provider_tasks  \* None | Some(what get_provider_tasks(config) returned)

configVars == <<config, build, provider_tasks>>

VARIABLES
    coordinates,        \* the coordinates a DWD task asks for
    weather_stations,   \* the parsed station list
    closest_station     \* None | Some(what find_closest_weather_station returned)

stationVars == <<coordinates, weather_stations, closest_station>>

VARIABLES
    requests,           \* location -> the coordinates its tasks ask for
    upstream_stations,  \* the station list the DWD serves at present
    provider_cache,     \* provider -> key -> None | Some([body, stored])
    inserted,           \* provider -> the keys ever inserted into its cache
    dwd_station         \* location -> None | Some(station the DWD task found)

keyVars == <<requests, upstream_stations, provider_cache, inserted, dwd_station>>

VARIABLES
    accept,                     \* the Accept header of the request: its entries
    media_types_by_priority,    \* None | Some(the sorted entries)
    negotiated                  \* None | Some(format get_metrics_format returned)

acceptVars == <<accept, media_types_by_priority, negotiated>>

VARIABLES
    weathers,           \* the records format_metrics is given
    metrics_format,     \* the format it is given
    metrics             \* None | Some(the body format_metrics returned)

metricsVars == <<weathers, metrics_format, metrics>>

VARIABLES
    config_auth,             \* Config::auth: the credentials store of the configuration, if any
    credentials_configured,  \* what configure_rocket manages: None or Some(store and default hash)
    exchange                 \* the request index or metrics handled last, and its answer

serverVars == <<config_auth, credentials_configured, exchange>>

VARIABLES
    live_scrape,    \* scrape -> "idle", "waiting" or "responded"
    thread_pc,      \* unit of work (scrape, URL) -> its position in request_cached
    rwlock_policy   \* whether RwLock::read waits while a writer waits (unspecified by std)

liveVars == <<live_scrape, thread_pc, rwlock_policy>>

VARIABLES
    catalog_line,            \* a data line of the station list, as a sequence of characters
    fixed_line,              \* None or Some(what fix_weather_stations_format_line made of it)
    dwd_query,               \* the coordinates a for_coordinates call is made for
    dwd_stations_answer,     \* what the request of the station list gives this call
    dwd_measurement_answer,  \* what the request of a measurement archive gives this call
    dwd_pc,                  \* position of the call: "start", "stations" or "done"
    dwd_requested,           \* the keys the call has requested, in order
    dwd_closest_station,     \* None or Some(the station the call selected)
    dwd_result               \* None or Some(what the call returned)

dwdVars == <<catalog_line, fixed_line, dwd_query, dwd_stations_answer, dwd_measurement_answer, dwd_pc, dwd_requested, dwd_closest_station, dwd_result>>

\* The state of the parts modelled on their own.
moreVars == <<stationVars, keyVars, acceptVars, metricsVars, serverVars, liveVars, dwdVars>>

NoCall == [kind |-> "none"]

\* CredentialsStore::default_hash: BCRYPT_DEFAULT_HASH.get_or_init(...)
default_hash(store, cell) ==
    IF cell = None THEN hash_default_password(max_cost(store))
    ELSE CHOOSE h \in cell : TRUE

\* authenticate(credentials, auth): the outcome, the new entries and cell, and
\* the bcrypt verifications it ran.
authenticate_CacheUnknown(store, auth, entries, cell) ==
    LET key == <<auth.username, auth.password>> IN
    IF auth.username \in DOMAIN store
    THEN LET hash == store[auth.username]
             cached == entries[key]
             run == cached = "absent" \/ replace_if(cached)
             outcome == IF run THEN verify_outcome(bcrypt_verify(auth.password, hash))
                        ELSE cached
         IN  [result |-> outcome,
              cache |-> [entries EXCEPT ![key] = outcome],
              cell |-> cell,
              verified |-> IF run THEN <<hash>> ELSE <<>>,
              cachedBefore |-> cached]
    ELSE LET sentinel == default_hash(store, cell)
         IN  [result |-> "Forbidden",
              cache |-> [entries EXCEPT ![key] = "Forbidden"],
              cell |-> Some(sentinel),
              verified |-> <<sentinel>>,
              cachedBefore |-> entries[key]]

authenticate(store, auth, entries, cell) ==
    LET key == <<auth.username, auth.password>> IN
    IF auth.username \in DOMAIN store
    THEN LET hash == store[auth.username]
             cached == entries[key]
             run == cached = "absent" \/ replace_if(cached)
             outcome == IF run THEN verify_outcome(bcrypt_verify(auth.password, hash))
                        ELSE cached
         IN  [result |-> outcome,
              cache |-> [entries EXCEPT ![key] = outcome],
              cell |-> cell,
              verified |-> IF run THEN <<hash>> ELSE <<>>,
              cachedBefore |-> cached]
    ELSE LET sentinel == default_hash(store, cell)
         IN  [result |-> "Forbidden",
              cache |-> entries,
              cell |-> Some(sentinel),
              verified |-> <<sentinel>>,
              cachedBefore |-> entries[key]]

\* maybe_authenticate(maybe_credentials_store, maybe_credentials_presented)
maybe_authenticate_PresentedFirst(maybe_store, maybe_presented, entries, cell) ==
    IF maybe_presented = None
    THEN [result |-> "Unauthorized", cache |-> entries, cell |-> cell,
          verified |-> <<>>, cachedBefore |-> "absent"]
    ELSE IF maybe_store = None
    THEN [result |-> "NotRequired", cache |-> entries, cell |-> cell,
          verified |-> <<>>, cachedBefore |-> "absent"]
    ELSE authenticate(CHOOSE s \in maybe_store : TRUE,
                      CHOOSE a \in maybe_presented : TRUE, entries, cell)

maybe_authenticate(maybe_store, maybe_presented, entries, cell) ==
    IF maybe_store # None /\ maybe_presented # None
    THEN authenticate(CHOOSE s \in maybe_store : TRUE,
                      CHOOSE a \in maybe_presented : TRUE, entries, cell)
    ELSE IF maybe_store # None
    THEN [result |-> "Unauthorized", cache |-> entries, cell |-> cell,
          verified |-> <<>>, cachedBefore |-> "absent"]
    ELSE [result |-> "NotRequired", cache |-> entries, cell |-> cell,
          verified |-> <<>>, cachedBefore |-> "absent"]

\* One call of maybe_authenticate with the presented credentials.
MaybeAuthenticate(presented) ==
    /\ authCalls < MaxAuthCalls
    /\ LET r == maybe_authenticate(credentials_store, presented,
                                   AUTHENTICATION_CACHE, BCRYPT_DEFAULT_HASH)
       IN  /\ AUTHENTICATION_CACHE' = r.cache
           /\ BCRYPT_DEFAULT_HASH' = r.cell
           /\ authLast' = [kind |-> "call", presented |-> presented,
                           result |-> r.result, verified |-> r.verified,
                           cachedBefore |-> r.cachedBefore]
           /\ authReturned' =
                IF presented = None THEN authReturned
                ELSE LET a == CHOOSE x \in presented : TRUE
                     IN  [authReturned EXCEPT ![<<a.username, a.password>>] = @ \cup {r.result}]
    /\ authCalls' = authCalls + 1
    /\ UNCHANGED credentials_store
    /\ UNCHANGED <<httpVars, scrapeVars, configVars, moreVars>>

\* The bounded cache (10^6 entries) may evict any entry at any time.
AuthEvict(p) ==
    /\ AUTHENTICATION_CACHE[p] # "absent"
    /\ AUTHENTICATION_CACHE' = [AUTHENTICATION_CACHE EXCEPT ![p] = "absent"]
    /\ authLast' = NoCall
    /\ UNCHANGED <<credentials_store, BCRYPT_DEFAULT_HASH, authReturned, authCalls>>
    /\ UNCHANGED <<httpVars, scrapeVars, configVars, moreVars>>

NextAuth ==
    \/ \E presented \in {None} \cup {Some(a) : a \in BasicAuths} : MaybeAuthenticate(presented)
    \/ \E p \in AuthPairs : AuthEvict(p)


(***************************************************************************)
(* Cached upstream requests and the per-host circuit breaker               *)
(* (src/providers/http_request.rs, src/config.rs)                          *)
(***************************************************************************)
CONSECUTIVE_FAILURE_COUNT == 3
EXPONENTIAL_BACKOFF_START_SECS == 30
EXPONENTIAL_BACKOFF_MAX_SECS == 300

\* Configuration::refresh_interval defaults to 10 minutes.
default_refresh_interval == 60 * 10

\* The refresh intervals a provider may be configured with (None: not set).
RefreshIntervals == {None, Some(60)}

\* Steps by which the clock advances (seconds).
TickSteps == {60, 600}

\* The URLs a provider may request, on two hosts.
Urls == {"https://a/1", "https://a/2", "https://b/1"}
Hosts == {"a", "b"}

\* Url::host_str
host_str_Same(url) == "a"

host_str(url) == IF url = "https://b/1" THEN "b" ELSE "a"
Keys == {"GET"} \X Urls

\* What the upstream may answer to a request: no answer (transport error),
\* a non-2xx status, or a 2xx status with a body; the body may be one that
\* to_string cannot convert, or one that deserialize cannot parse.
Bodies == {"w1", "garbage"}
ErrorBodies == {"error page"}
Responses ==
    {[status |-> "transport_error"],
     [status |-> "2xx", convertible |-> FALSE]}
    \cup {[status |-> "non_2xx", convertible |-> TRUE, body |-> b] : b \in ErrorBodies}
    \cup {[status |-> "2xx", convertible |-> TRUE, body |-> b] : b \in Bodies}

Err(kind) == [ok |-> FALSE, err |-> kind]

\* request.deserialize: Ok(value) or Err for a body that does not parse.
deserialize(body) ==
    IF body = "garbage" THEN Err("deserialize")
    ELSE [ok |-> TRUE, value |-> [weather |-> body]]

\* failsafe::backoff::exponential(start, max): the delay of the n-th opening.
exponential_backoff_seconds(attempt) ==
    LET exp == (2 ^ attempt) * EXPONENTIAL_BACKOFF_START_SECS
    IN  IF exp < EXPONENTIAL_BACKOFF_MAX_SECS THEN exp ELSE EXPONENTIAL_BACKOFF_MAX_SECS

\* Config::new().failure_policy(consecutive_failures(3, exponential(30s, 300s))).build()
new_circuit_breaker ==
    [state |-> "closed", consecutive_failures |-> 0, attempt |-> 0, until |-> 0, delay |-> 0]

\* The TTL of the provider's cache: get_provider_tasks builds it with
\* time_to_live(configured_provider.refresh_interval()).
time_to_live(configured) == unwrap_or(configured, default_refresh_interval)

\* moka Cache::get: the entry's value unless the entry has expired.
cache_get_NoExpiry(c, key, ttl, time) ==
    IF c[key] = None THEN None
    ELSE Some((CHOOSE e \in c[key] : TRUE))

cache_get(c, key, ttl, time) ==
    IF c[key] = None THEN None
    ELSE LET e == CHOOSE x \in c[key] : TRUE
         IN  IF time >= e.stored + ttl THEN None ELSE Some(e)

\* StateMachine::is_call_permitted: the new breaker and whether the call may run.
is_call_permitted_Counting(cb, time) ==
    IF cb.state = "open"
    THEN IF time > cb.until
         THEN [permitted |-> TRUE, cb |-> [cb EXCEPT !.state = "half_open"]]
         ELSE [permitted |-> FALSE,
               cb |-> [cb EXCEPT !.consecutive_failures = @ + 1,
                                 !.until = time + cb.delay]]
    ELSE [permitted |-> TRUE, cb |-> cb]

is_call_permitted(cb, time) ==
    IF cb.state = "open"
    THEN IF time > cb.until
         THEN [permitted |-> TRUE, cb |-> [cb EXCEPT !.state = "half_open"]]
         ELSE [permitted |-> FALSE, cb |-> cb]
    ELSE [permitted |-> TRUE, cb |-> cb]

\* ConsecutiveFailures::mark_dead_on_failure: the breaker is dead once the
\* incremented count reaches the threshold.
mark_dead_Threshold2(cb) == cb.consecutive_failures + 1 >= CONSECUTIVE_FAILURE_COUNT - 1

mark_dead(cb) == cb.consecutive_failures + 1 >= CONSECUTIVE_FAILURE_COUNT

\* StateMachine::on_error
on_error(cb, time) ==
    IF cb.state = "closed"
    THEN IF mark_dead(cb)
         THEN [state |-> "open",
               consecutive_failures |-> cb.consecutive_failures + 1,
               attempt |-> cb.attempt + 1,
               until |-> time + exponential_backoff_seconds(cb.attempt),
               delay |-> exponential_backoff_seconds(cb.attempt)]
         ELSE [cb EXCEPT !.consecutive_failures = @ + 1]
    ELSE IF cb.state = "half_open"
    THEN LET delay == IF mark_dead(cb) THEN exponential_backoff_seconds(cb.attempt)
                      ELSE cb.delay
         IN  [state |-> "open",
              consecutive_failures |-> cb.consecutive_failures + 1,
              attempt |-> IF mark_dead(cb) THEN cb.attempt + 1 ELSE cb.attempt,
              until |-> time + delay,
              delay |-> delay]
    ELSE cb

\* StateMachine::on_success
on_success_KeepCount(cb) ==
    IF cb.state = "half_open" THEN new_circuit_breaker ELSE cb

on_success(cb) ==
    IF cb.state = "half_open" THEN new_circuit_breaker
    ELSE [cb EXCEPT !.consecutive_failures = 0]

NoEvent == [event |-> "none"]

\* The positions of a request_cached call that has missed the cache: about
\* to take the registry's read lock (line 136), its write lock (line 149),
\* the read lock again (line 192), or waiting for the upstream's answer
\* inside circuit_breaker.call with the read lock held.
Positions == {"read", "write", "read_again", "in_flight"}
Calls == [pc : Positions, key : Keys]

\* The worker threads are interchangeable, so the calls in progress are kept
\* as a bag: running[c] is the number of threads at position c.pc with key
\* c.key; at most NumThreads calls are in progress.
RECURSIVE Sum(_, _)
Sum(f, S) == IF S = {} THEN 0
             ELSE LET x == CHOOSE y \in S : TRUE IN f[x] + Sum(f, S \ {x})
Active == Sum(running, Calls)
Enter(c) == [running EXCEPT ![c] = @ + 1]
Leave(c) == [running EXCEPT ![c] = @ - 1]
Move(c, d) == [running EXCEPT ![c] = @ - 1, ![d] = @ + 1]

\* The number of read locks held on CIRCUIT_BREAKER_REGISTRY: the read guard
\* lives until request_url_with_circuit_breaker returns (lines 136-147,
\* 192-207).
readers == Sum(running, {c \in Calls : c.pc = "in_flight"})

\* request_cached, lines 99-129: look the key up in the cache; on a hit
\* return the deserialized cached body, on a miss go on to the registry.
request_cached_get_Refresh(key) ==
    /\ key[2] \in request_urls
    /\ Active < NumThreads
    /\ calls < MaxCalls
    /\ calls' = calls + 1
    /\ LET value == cache_get(cache, key, time_to_live(refresh_interval), now)
       IN  IF value # None
           THEN LET e == CHOOSE x \in value : TRUE
                IN  /\ last' = [event |-> "hit", key |-> key,
                                result |-> deserialize(e.body)]
                    /\ breaker' = [breaker EXCEPT ![host_str(key[2])] = on_success(@)]
                    /\ UNCHANGED running
           ELSE /\ last' = NoEvent
                /\ running' = Enter([pc |-> "read", key |-> key])
                /\ UNCHANGED breaker
    /\ UNCHANGED <<refresh_interval, request_urls, now, cache, registry, streak, ticks>>
    /\ UNCHANGED <<authVars, scrapeVars, configVars, moreVars>>

request_cached_get(key) ==
    /\ key[2] \in request_urls
    /\ Active < NumThreads
    /\ calls < MaxCalls
    /\ calls' = calls + 1
    /\ LET value == cache_get(cache, key, time_to_live(refresh_interval), now)
       IN  IF value # None
           THEN LET e == CHOOSE x \in value : TRUE
                IN  /\ last' = [event |-> "hit", key |-> key,
                                result |-> deserialize(e.body)]
                    /\ UNCHANGED running
           ELSE /\ last' = NoEvent
                /\ running' = Enter([pc |-> "read", key |-> key])
    /\ UNCHANGED <<refresh_interval, request_urls, now, cache, registry, breaker, streak, ticks>>
    /\ UNCHANGED <<authVars, scrapeVars, configVars, moreVars>>

\* circuit_breaker.call, first half: Rejected unless the call is permitted,
\* otherwise request_url sends the upstream request (the registry's read lock
\* stays held by the caller of request_url_with_circuit_breaker).
circuit_breaker_call(c) ==
    LET h == host_str(c.key[2])
        p == is_call_permitted(breaker[h], now)
    IN  /\ breaker' = [breaker EXCEPT ![h] = p.cb]
        /\ IF p.permitted
           THEN /\ running' = Move(c, [pc |-> "in_flight", key |-> c.key])
                /\ last' = NoEvent
           ELSE /\ running' = Leave(c)
                /\ last' = [event |-> "rejected", result |-> Err("rejected")]

\* request_cached, lines 136-147: under the read lock, use the host's
\* breaker if it exists, else drop the lock and go on to create it.
request_cached_read(key) ==
    LET c == [pc |-> "read", key |-> key]
    IN  /\ running[c] > 0
        /\ IF host_str(key[2]) \in registry
           THEN circuit_breaker_call(c)
           ELSE /\ running' = Move(c, [pc |-> "write", key |-> key])
                /\ last' = NoEvent
                /\ UNCHANGED breaker
        /\ UNCHANGED <<refresh_interval, request_urls, now, cache, registry, streak, calls, ticks>>
        /\ UNCHANGED <<authVars, scrapeVars, configVars, moreVars>>

\* request_cached, lines 149-190: under the write lock (no read lock is
\* held), create the host's breaker unless another thread has created it
\* meanwhile.
request_cached_write_NoCheck(key) ==
    LET c == [pc |-> "write", key |-> key]
        h == host_str(key[2])
    IN  /\ running[c] > 0
        /\ readers = 0
        /\ registry' = registry \cup {h}
        /\ breaker' = [breaker EXCEPT ![h] = new_circuit_breaker]
        /\ running' = Move(c, [pc |-> "read_again", key |-> key])
        /\ last' = NoEvent
        /\ UNCHANGED <<refresh_interval, request_urls, now, cache, streak, calls, ticks>>
        /\ UNCHANGED <<authVars, scrapeVars, configVars, moreVars>>

request_cached_write(key) ==
    LET c == [pc |-> "write", key |-> key]
        h == host_str(key[2])
    IN  /\ running[c] > 0
        /\ readers = 0
        /\ IF h \in registry
           THEN UNCHANGED <<registry, breaker>>
           ELSE /\ registry' = registry \cup {h}
                /\ breaker' = [breaker EXCEPT ![h] = new_circuit_breaker]
        /\ running' = Move(c, [pc |-> "read_again", key |-> key])
        /\ last' = NoEvent
        /\ UNCHANGED <<refresh_interval, request_urls, now, cache, streak, calls, ticks>>
        /\ UNCHANGED <<authVars, scrapeVars, configVars, moreVars>>

\* request_cached, lines 192-207: take the read lock again and call through
\* the breaker, which now exists.
request_cached_read_again(key) ==
    LET c == [pc |-> "read_again", key |-> key]
    IN  /\ running[c] > 0
        /\ host_str(key[2]) \in registry
        /\ circuit_breaker_call(c)
        /\ UNCHANGED <<refresh_interval, request_urls, now, cache, registry, streak, calls, ticks>>
        /\ UNCHANGED <<authVars, scrapeVars, configVars, moreVars>>

\* request_url, lines 240-255: the response, unless sending failed or the
\* status is not a success.
request_url_AnyStatus(upstream) ==
    IF upstream.status = "transport_error" THEN Err(upstream.status)
    ELSE [ok |-> TRUE, response |-> upstream]

request_url(upstream) ==
    IF upstream.status # "2xx" THEN Err(upstream.status)
    ELSE [ok |-> TRUE, response |-> upstream]

\* circuit_breaker.call, second half, and the rest of
\* request_url_with_circuit_breaker: the upstream answers; request_url turns a
\* non-2xx status into an error; the breaker records the outcome; a 2xx
\* response is converted, stored in the cache and deserialized.
request_url_with_circuit_breaker(key, upstream) ==
    LET c == [pc |-> "in_flight", key |-> key]
        h == host_str(key[2])
    IN  /\ running[c] > 0
        /\ IF ~request_url(upstream).ok
           THEN /\ breaker' = [breaker EXCEPT ![h] = on_error(@, now)]
                /\ streak' = [streak EXCEPT ![h] = @ + 1]
                /\ cache' = cache
                /\ last' = [event |-> "returned", result |-> request_url(upstream)]
           ELSE /\ breaker' = [breaker EXCEPT ![h] = on_success(@)]
                /\ streak' = [streak EXCEPT ![h] = 0]
                /\ IF ~upstream.convertible
                   THEN /\ cache' = cache
                        /\ last' = [event |-> "returned", result |-> Err("to_string")]
                   ELSE /\ cache' = [cache EXCEPT ![key] =
                                        Some([body |-> upstream.body, stored |-> now])]
                        /\ last' = [event |-> "returned",
                                    result |-> deserialize(upstream.body)]
        /\ running' = Leave(c)
        /\ UNCHANGED <<refresh_interval, request_urls, now, registry, calls, ticks>>
        /\ UNCHANGED <<authVars, scrapeVars, configVars, moreVars>>

\* Time passes.
Tick(dt) ==
    /\ ticks < MaxTicks
    /\ ticks' = ticks + 1
    /\ now' = now + dt
    /\ last' = NoEvent
    /\ UNCHANGED <<refresh_interval, request_urls, cache, registry, breaker, running, streak, calls>>
    /\ UNCHANGED <<authVars, scrapeVars, configVars, moreVars>>

Next ==
    \/ \E key \in Keys : request_cached_get(key)
    \/ \E key \in Keys : request_cached_read(key)
    \/ \E key \in Keys : request_cached_write(key)
    \/ \E key \in Keys : request_cached_read_again(key)
    \/ \E key \in Keys, upstream \in Responses : request_url_with_circuit_breaker(key, upstream)
    \/ \E dt \in TickSteps : Tick(dt)

(***************************************************************************)
(* The scrape fan-out (src/http_server.rs, src/prometheus.rs)              *)
(***************************************************************************)
\* The tasks get_provider_tasks materialises: one per (provider, location).
ProviderIds == {"org.openweathermap", "local.nogoodnik"}
LocationNames == {"berlin", "hamburg"}
ProviderTasks == ProviderIds \X LocationNames
Formats == {"Prometheus", "OpenMetrics"}
Temperatures == {21}

\* What the blocking unit of work of a task may end with: for_coordinates
\* returns Ok(weather) or Err, or the unit panics (the join handle then
\* yields a JoinError).
TaskOutcomes(task) ==
    {[weather |-> [coordinates |-> [latitude |-> 0, longitude |-> 0],
                   source |-> task[1], location |-> task[2], city |-> task[2],
                   distance |-> None, temperature |-> c, relative_humidity |-> None],
      kind |-> "ok"]
     : c \in Temperatures}
    \cup {[kind |-> "err"], [kind |-> "panic"]}

\* Display of a Coordinate, "{:.7}": seven fractional digits. A value of n
\* units (of 0.00000005 degrees) is printed as n \div 2 ten-millionths.
coordinate_to_string(c) == "0.000000" \o ToString(c \div 2)

\* The Labels of the samples of a record.
VERSION == "0.0.0"
Labels(w) ==
    [version |-> VERSION, source |-> w.source, location |-> w.location, city |-> w.city,
     latitude |-> coordinate_to_string(w.coordinates.latitude),
     longitude |-> coordinate_to_string(w.coordinates.longitude)]

\* The value of a record for a family, if it has one.
value_of(w, field) == IF field = "temperature" THEN Some(w.temperature) ELSE w[field]

\* family.get_or_create(&labels).set(value) for each record that has the
\* value: a Family holds one gauge per label set, and a later record with
\* the same labels sets that gauge again.
samples_PerRecord(records, field) ==
    {[labels |-> Labels(records[i]),
      value |-> CHOOSE v \in value_of(records[i], field) : TRUE]
     : i \in {j \in DOMAIN records : value_of(records[j], field) # None}}

samples(records, field) ==
    LET having == {i \in DOMAIN records : value_of(records[i], field) # None}
        is_last(i) == \A j \in having : Labels(records[j]) = Labels(records[i]) => j <= i
    IN  {[labels |-> Labels(records[i]),
          value |-> CHOOSE v \in value_of(records[i], field) : TRUE]
         : i \in {j \in having : is_last(j)}}

\* A registered family as encode writes it: its descriptor (HELP, TYPE and
\* UNIT lines under the prefixed name) and its samples, in no fixed order.
family(name, unit_name, records, field) ==
    [name |-> "weather_" \o name \o "_" \o unit_name, type |-> "gauge", unit |-> unit_name,
     samples |-> samples(records, field)]

\* The registry after the loop over the records: the temperature family,
\* and the humidity and the distance family once a record had the value, in
\* the order in which they were registered.
metrics_registry_Eager(records) ==
    <<family("temperature", "celsius", records, "temperature"),
      family("relative_humidity", "ratio", records, "relative_humidity"),
      family("station_distance", "meters", records, "distance")>>

metrics_registry(records) ==
    LET first(field) ==
            CHOOSE i \in DOMAIN records :
                /\ records[i][field] # None
                /\ \A j \in DOMAIN records : records[j][field] # None => i <= j
        humidity_registered == \E i \in DOMAIN records : records[i].relative_humidity # None
        station_distance_registered == \E i \in DOMAIN records : records[i].distance # None
        humidity == family("relative_humidity", "ratio", records, "relative_humidity")
        station_distance == family("station_distance", "meters", records, "distance")
    IN  <<family("temperature", "celsius", records, "temperature")>>
        \o (IF humidity_registered /\ station_distance_registered
            THEN IF first("relative_humidity") <= first("distance")
                 THEN <<humidity, station_distance>>
                 ELSE <<station_distance, humidity>>
            ELSE IF humidity_registered THEN <<humidity>>
            ELSE IF station_distance_registered THEN <<station_distance>>
            ELSE <<>>)

\* prometheus_client::encoding::text::encode: the families of the registry
\* and then the line "# EOF".
EOF == [text |-> "# EOF"]
encode(families) == Append(families, EOF)

\* format_metrics: the format it is given is not used.
format_metrics_HonoursFormat(_format, records) ==
    IF _format = "OpenMetrics" THEN encode(metrics_registry(records)) ELSE metrics_registry(records)

format_metrics(_format, records) == encode(metrics_registry(records))

Running == [kind |-> "running"]
Unspawned == [kind |-> "unspawned"]

\* serve_metrics, lines 83-96: spawn one blocking unit of work per task.
serve_metrics ==
    /\ scrape = "idle"
    /\ scrape' = "waiting"
    /\ unit' = [task \in ProviderTasks |-> Running]
    /\ UNCHANGED <<format, joined, weather, response, stored, detached>>
    /\ UNCHANGED <<authVars, httpVars, configVars, moreVars>>

\* The unit of work of a task ends, whether or not anything still waits for
\* it: for_coordinates returns or panics; when it returns Ok, request_cached
\* has the body in the provider's cache (http_request.rs:231).
spawn_blocking(task, outcome) ==
    /\ unit[task] = Running
    /\ unit' = [unit EXCEPT ![task] = outcome]
    /\ stored' = IF outcome.kind = "ok" THEN stored \cup {task} ELSE stored
    /\ UNCHANGED <<scrape, format, joined, weather, response, detached>>
    /\ UNCHANGED <<authVars, httpVars, configVars, moreVars>>

MetricsResponse(status, cause, body) ==
    Some([status |-> status, cause |-> cause, body |-> body])

\* wait_for_metrics, lines 117-122: take the next finished unit from the
\* join set; `result??` returns early on a JoinError, and serve_metrics then
\* answers 500; a provider error is logged; a record is collected.
join_next(task) ==
    /\ scrape = "waiting"
    /\ task \notin joined
    /\ unit[task].kind \in {"ok", "err", "panic"}
    /\ joined' = joined \cup {task}
    /\ IF unit[task].kind = "panic"
       THEN /\ scrape' = "responded"
            /\ response' = MetricsResponse(500, "join_error",
                              "Error while fetching weather data. Check the logs")
            /\ weather' = weather
       ELSE /\ weather' = IF unit[task].kind = "ok"
                          THEN Append(weather, unit[task].weather) ELSE weather
            /\ UNCHANGED <<scrape, response>>
    /\ UNCHANGED <<format, unit, stored, detached>>
    /\ UNCHANGED <<authVars, httpVars, configVars, moreVars>>

\* wait_for_metrics, line 124, and serve_metrics, lines 98-108: once the
\* join set is empty the records are encoded; 200 with the encoded body, or
\* 500 when the encoder fails.
wait_for_metrics_done(encoded) ==
    /\ scrape = "waiting"
    /\ joined = ProviderTasks
    /\ scrape' = "responded"
    /\ response' = IF encoded
                   THEN MetricsResponse(200, "encoded", format_metrics(format, weather))
                   ELSE MetricsResponse(500, "encoder",
                           "Error while fetching weather data. Check the logs")
    /\ UNCHANGED <<format, unit, joined, weather, stored, detached>>
    /\ UNCHANGED <<authVars, httpVars, configVars, moreVars>>

\* The scrape is cancelled while serve_metrics awaits wait_for_metrics: the
\* future is dropped and the join set with it. The join set held the join
\* handles of the blocking units (lines 85-96); a blocking unit is not
\* stopped by dropping its handle, so the units that have not ended run on.
cancel_Abort ==
    /\ scrape = "waiting"
    /\ scrape' = "cancelled"
    /\ detached' = {}
    /\ unit' = [task \in ProviderTasks |->
                  IF unit[task] = Running THEN [kind |-> "err"] ELSE unit[task]]
    /\ UNCHANGED <<format, joined, weather, response, stored>>
    /\ UNCHANGED <<authVars, httpVars, configVars, moreVars>>

cancel ==
    /\ scrape = "waiting"
    /\ scrape' = "cancelled"
    /\ detached' = {task \in ProviderTasks : unit[task] = Running}
    /\ UNCHANGED <<format, unit, joined, weather, response, stored>>
    /\ UNCHANGED <<authVars, httpVars, configVars, moreVars>>

NextScrape ==
    \/ serve_metrics
    \/ \E task \in ProviderTasks : \E outcome \in TaskOutcomes(task) : spawn_blocking(task, outcome)
    \/ \E task \in ProviderTasks : join_next(task)
    \/ \E encoded \in BOOLEAN : wait_for_metrics_done(encoded)
    \/ cancel

(***************************************************************************)
(* Task materialisation (src/config.rs, src/providers/mod.rs)              *)
(***************************************************************************)
\* Providers::into_iter pushes the configured providers in the order of the
\* fields of Providers.
ProviderFields == <<"org.openweathermap", "de.dwd", "local.nogoodnik">>
ConfigurableProviders == {ProviderFields[i] : i \in 1 .. Len(ProviderFields)}

into_iter(providers) == SelectSeq(ProviderFields, LAMBDA id : id \in providers)

\* WeatherProvider::cache_cardinality: 1 unless the provider overrides it
\* (DeutscherWetterdienst: 2).
cache_cardinality(provider) == IF provider = "de.dwd" THEN 2 ELSE 1

\* Config.locations: a map from the location's key to its Location, whose
\* name is optional.
LocationKeys == {"berlin", "hamburg"}
LocationMaps ==
    UNION {[K -> [name : {None, Some("Home")}]] : K \in SUBSET LocationKeys}
Configs ==
    [providers : {None} \cup {Some(P) : P \in SUBSET ConfigurableProviders},
     locations : LocationMaps]

\* The orders in which a HashMap with these keys may be iterated.
IterationOrders(K) ==
    {o \in [1 .. Cardinality(K) -> K] : \A i, j \in DOMAIN o : o[i] = o[j] => i = j}

\* The builds of the program: usize has usize_bits bits, and an arithmetic
\* overflow panics when the profile has overflow-checks on and wraps around
\* when it has them off.
Builds(bits) == [usize_bits : bits, overflow_checks : BOOLEAN]

\* a * b on usize: the product, the wrapped product, or a panic.
Panic == [panicked |-> TRUE]
usize_mul(a, b, target) ==
    IF a * b < 2 ^ target.usize_bits
    THEN [panicked |-> FALSE, value |-> a * b]
    ELSE IF target.overflow_checks
         THEN Panic
         ELSE [panicked |-> FALSE, value |-> (a * b) % (2 ^ target.usize_bits)]

\* get_provider_tasks(config): for each configured provider one new cache
\* (named here by the provider's position) and one task per location, bound
\* to that cache.
get_provider_tasks_CachePerTask(cfg, order, target) ==
    IF cfg.providers = None
    THEN [ok |-> FALSE, err |-> "No providers configured"]
    ELSE LET configured_providers == into_iter(CHOOSE P \in cfg.providers : TRUE)
             n == Len(order)
             provider_of(i) == ((i - 1) \div n) + 1
             location_of(i) == order[((i - 1) % n) + 1]
             max_capacity(p) ==
                 usize_mul(Cardinality(DOMAIN cfg.locations),
                           cache_cardinality(configured_providers[p]), target)
         IN  IF \E p \in 1 .. Len(configured_providers) : max_capacity(p).panicked
             THEN [ok |-> FALSE, err |-> "attempt to multiply with overflow"]
             ELSE
             [ok |-> TRUE,
              caches |-> [i \in 1 .. Len(configured_providers) * n |->
                  [max_capacity |-> max_capacity(provider_of(i)).value]],
              tasks |-> [i \in 1 .. Len(configured_providers) * n |->
                  [provider |-> configured_providers[provider_of(i)],
                   location |-> location_of(i),
                   request |-> [name |-> unwrap_or(cfg.locations[location_of(i)].name,
                                                   location_of(i))],
                   cache |-> i]]]

get_provider_tasks(cfg, order, target) ==
    IF cfg.providers = None
    THEN [ok |-> FALSE, err |-> "No providers configured"]
    ELSE LET configured_providers == into_iter(CHOOSE P \in cfg.providers : TRUE)
             n == Len(order)
             provider_of(i) == ((i - 1) \div n) + 1
             location_of(i) == order[((i - 1) % n) + 1]
             max_capacity(p) ==
                 usize_mul(Cardinality(DOMAIN cfg.locations),
                           cache_cardinality(configured_providers[p]), target)
         IN  IF \E p \in 1 .. Len(configured_providers) : max_capacity(p).panicked
             THEN [ok |-> FALSE, err |-> "attempt to multiply with overflow"]
             ELSE
             [ok |-> TRUE,
              caches |-> [p \in 1 .. Len(configured_providers) |->
                  [max_capacity |-> max_capacity(p).value]],
              tasks |-> [i \in 1 .. Len(configured_providers) * n |->
                  [provider |-> configured_providers[provider_of(i)],
                   location |-> location_of(i),
                   request |-> [name |-> unwrap_or(cfg.locations[location_of(i)].name,
                                                   location_of(i))],
                   cache |-> provider_of(i)]]]

\* configure_rocket, line 23: the tasks are materialised once, at startup;
\* an Err and a panic of the blocking unit both end the process
\* (exit_if_handle_fatal), recorded here as the result that is not ok.
configure_rocket(order) ==
    /\ provider_tasks = None
    /\ provider_tasks' = Some(get_provider_tasks(config, order, build))
    /\ UNCHANGED <<config, build>>
    /\ UNCHANGED <<authVars, httpVars, scrapeVars, moreVars>>

NextConfig ==
    \E order \in IterationOrders(DOMAIN config.locations) : configure_rocket(order)

(***************************************************************************)
(* The closest DWD station (src/providers/deutscher_wetterdienst.rs,       *)
(* src/providers/units.rs)                                                 *)
(***************************************************************************)
\* Coordinate values are counted in units of 0.00000005 degrees, so that the
\* tolerance of Coordinate::eq, 0.0000001, is two units.
COORDINATE_TOLERANCE == 2
CoordinateValues == {0, 1, 3}
Points == [latitude : CoordinateValues, longitude : {0, 3}]

\* impl PartialEq for Coordinate: equal when closer than the tolerance.
Abs(x) == IF x < 0 THEN -x ELSE x
coordinate_eq(a, b) == Abs(a - b) < COORDINATE_TOLERANCE

\* The stations the list may hold and the lists themselves: the stations in
\* any order, none twice.
Stations ==
    {[station_id |-> "s1", latitude |-> 0, longitude |-> 0],
     [station_id |-> "s2", latitude |-> 1, longitude |-> 0],
     [station_id |-> "s3", latitude |-> 3, longitude |-> 0],
     [station_id |-> "s4", latitude |-> 0, longitude |-> 3]}
StationLists ==
    UNION {{l \in [1 .. n -> Stations] : \A i, j \in 1 .. n : l[i] = l[j] => i = j}
           : n \in 0 .. MaxStations}

\* Point::new(x, y) of a station or of the requested coordinates:
\* x is the longitude, y the latitude.
point_of(c) == [x |-> c.longitude, y |-> c.latitude]

\* geo's euclidean_distance, squared: the order of two distances is the
\* order of their squares.
euclidean_distance(a, b) == (a.x - b.x) * (a.x - b.x) + (a.y - b.y) * (a.y - b.y)

\* geo: Point::closest_point(p) is Intersection when the points are equal.
Indeterminate == [kind |-> "Indeterminate"]
point_closest_point(q, p) ==
    IF q = p THEN [kind |-> "Intersection", point |-> q]
    ELSE [kind |-> "SinglePoint", point |-> q]

\* geo: Closest::best_of_two.
best_of_two(left, right, p) ==
    IF left.kind = "Indeterminate" THEN right
    ELSE IF left.kind = "Intersection" THEN left
    ELSE IF right.kind = "Indeterminate" THEN left
    ELSE IF right.kind = "Intersection" THEN right
    ELSE IF euclidean_distance(left.point, p) <= euclidean_distance(right.point, p)
         THEN left
         ELSE right

\* geo: MultiPoint::closest_point folds best_of_two over the points, in order.
RECURSIVE closest_of(_, _, _, _)
closest_of(points, p, i, best) ==
    IF i > Len(points) THEN best
    ELSE closest_of(points, p, i + 1,
                    best_of_two(best, point_closest_point(points[i], p), p))

closest_point(points, p) == closest_of(points, p, 1, Indeterminate)

\* find_closest_weather_station: the first station whose coordinates equal,
\* as Coordinate::eq has it, those of the closest point.
find_closest_weather_station(coords, stations) ==
    LET points == [i \in 1 .. Len(stations) |-> point_of(stations[i])]
        closest == closest_point(points, point_of(coords))
    IN  IF closest.kind = "Indeterminate"
        THEN Err("Could not find closest point")
        ELSE LET matching ==
                     {i \in 1 .. Len(stations) :
                         /\ coordinate_eq(stations[i].longitude, closest.point.x)
                         /\ coordinate_eq(stations[i].latitude, closest.point.y)}
             IN  IF matching = {}
                 THEN Err("Could not find matching station")
                 ELSE [ok |-> TRUE,
                       value |-> stations[CHOOSE i \in matching :
                                              \A j \in matching : i <= j]]

\* for_coordinates, line 261: the closest station is looked up in the list.
find_closest ==
    /\ closest_station = None
    /\ closest_station' = Some(find_closest_weather_station(coordinates, weather_stations))
    /\ UNCHANGED <<coordinates, weather_stations>>
    /\ UNCHANGED <<authVars, httpVars, scrapeVars, configVars, keyVars, acceptVars, metricsVars, serverVars, liveVars, dwdVars>>

NextStations == find_closest

(***************************************************************************)
(* The cache keys of the providers (src/providers/open_weather.rs,         *)
(* src/providers/deutscher_wetterdienst.rs, src/config.rs)                 *)
(***************************************************************************)
KeyProviders == {"org.openweathermap", "de.dwd"}

\* The locations of the configuration and where they are.
RequestMaps ==
    {[l \in K |-> IF l = "berlin" THEN [latitude |-> 0, longitude |-> 0]
                                  ELSE [latitude |-> 3, longitude |-> 3]]
     : K \in (SUBSET LocationKeys) \ {{}}}

\* The station lists the DWD may publish.
Station(id) == CHOOSE st \in Stations : st.station_id = id
UpstreamLists == {<<>>, <<Station("s1"), Station("s3")>>, <<Station("s3"), Station("s4")>>}

\* The key of the request a single-request provider makes for a location:
\* its URL is built from the coordinates (and the API key, which is fixed).
open_weather_key(query) ==
    <<"GET", "https://api.openweathermap.org/data/2.5/weather?lat="
                \o ToString(query.latitude) \o "&lon=" \o ToString(query.longitude)>>

\* The keys of the two requests of the DWD: the station list, and the
\* measurements of one station.
STATION_LIST_KEY == <<"GET", "zehn_now_tu_Beschreibung_Stationen.txt">>
measurement_key(station_id) == <<"GET", "10minutenwerte_TU_" \o station_id \o "_now.zip">>

ProviderKeys(provider) ==
    IF provider = "de.dwd"
    THEN {STATION_LIST_KEY} \cup {measurement_key(st.station_id) : st \in Stations}
    ELSE {open_weather_key(q) : q \in Points \cup {[latitude |-> 3, longitude |-> 3]}}

\* The capacity get_provider_tasks gives the cache of a provider.
max_capacity(provider) == Cardinality(DOMAIN requests) * cache_cardinality(provider)

\* The entries of a cache that have not expired, and all it holds.
Held(provider) == {k \in ProviderKeys(provider) : provider_cache[provider][k] # None}
Live(provider) ==
    {k \in ProviderKeys(provider) :
        cache_get(provider_cache[provider], k, time_to_live(refresh_interval), now) # None}

\* request_cached on the cache of a provider, as one step: the cached body
\* if there is one, else the upstream's answer, which is inserted if it is
\* a body (answer is None when the request fails or the breaker rejects it).
cached_body(provider, key, answer) ==
    LET hit == cache_get(provider_cache[provider], key, time_to_live(refresh_interval), now)
    IN  IF hit # None THEN Some((CHOOSE e \in hit : TRUE).body) ELSE answer

request_cached(provider, key, answer) ==
    LET hit == cache_get(provider_cache[provider], key, time_to_live(refresh_interval), now)
    IN  IF hit = None /\ answer # None
        THEN /\ provider_cache' =
                   [provider_cache EXCEPT ![provider][key] =
                       Some([body |-> CHOOSE b \in answer : TRUE, stored |-> now])]
             /\ inserted' = [inserted EXCEPT ![provider] = @ \cup {key}]
        ELSE UNCHANGED <<provider_cache, inserted>>

\* OpenWeather::for_coordinates: one request.
open_weather_for_coordinates(location, answer) ==
    /\ location \in DOMAIN requests
    /\ request_cached("org.openweathermap", open_weather_key(requests[location]), answer)
    /\ UNCHANGED <<requests, upstream_stations, dwd_station>>
    /\ UNCHANGED <<authVars, httpVars, scrapeVars, configVars, stationVars, acceptVars, metricsVars, serverVars, liveVars, dwdVars>>

\* DeutscherWetterdienst::for_coordinates, lines 245-261: the station list
\* is requested and the closest station looked up.
dwd_request_stations(location, answered) ==
    LET answer == IF answered THEN Some(upstream_stations) ELSE None
        body == cached_body("de.dwd", STATION_LIST_KEY, answer)
        closest == find_closest_weather_station(requests[location],
                                                CHOOSE l \in body : TRUE)
    IN  /\ location \in DOMAIN requests
        /\ dwd_station[location] = None
        /\ request_cached("de.dwd", STATION_LIST_KEY, answer)
        /\ dwd_station' =
              [dwd_station EXCEPT ![location] =
                  IF body # None /\ closest.ok THEN Some(closest.value.station_id)
                  ELSE None]
        /\ UNCHANGED <<requests, upstream_stations>>
        /\ UNCHANGED <<authVars, httpVars, scrapeVars, configVars, stationVars, acceptVars, metricsVars, serverVars, liveVars, dwdVars>>

\* DeutscherWetterdienst::for_coordinates, lines 263-264: the measurements
\* of the closest station are requested.
dwd_request_measurement(location, answer) ==
    /\ location \in DOMAIN requests
    /\ dwd_station[location] # None
    /\ request_cached("de.dwd",
                      measurement_key(CHOOSE id \in dwd_station[location] : TRUE), answer)
    /\ dwd_station' = [dwd_station EXCEPT ![location] = None]
    /\ UNCHANGED <<requests, upstream_stations>>
    /\ UNCHANGED <<authVars, httpVars, scrapeVars, configVars, stationVars, acceptVars, metricsVars, serverVars, liveVars, dwdVars>>

\* The DWD publishes another station list.
upstream_publish(list) ==
    /\ list # upstream_stations
    /\ upstream_stations' = list
    /\ UNCHANGED <<requests, provider_cache, inserted, dwd_station>>
    /\ UNCHANGED <<authVars, httpVars, scrapeVars, configVars, stationVars, acceptVars, metricsVars, serverVars, liveVars, dwdVars>>

\* moka: a cache that holds more entries than its max_capacity evicts one.
cache_evict(provider, key) ==
    /\ Cardinality(Held(provider)) > max_capacity(provider)
    /\ key \in Held(provider)
    /\ provider_cache' = [provider_cache EXCEPT ![provider][key] = None]
    /\ UNCHANGED <<requests, upstream_stations, inserted, dwd_station>>
    /\ UNCHANGED <<authVars, httpVars, scrapeVars, configVars, stationVars, acceptVars, metricsVars, serverVars, liveVars, dwdVars>>

NextKeys ==
    \/ \E location \in LocationKeys, answer \in {None, Some("weather")} :
          open_weather_for_coordinates(location, answer)
    \/ \E location \in LocationKeys, answered \in BOOLEAN :
          dwd_request_stations(location, answered)
    \/ \E location \in LocationKeys, answer \in {None, Some("measurements")} :
          dwd_request_measurement(location, answer)
    \/ \E list \in UpstreamLists : upstream_publish(list)
    \/ \E provider \in KeyProviders : \E key \in ProviderKeys(provider) :
          cache_evict(provider, key)
    \/ \E dt \in TickSteps : Tick(dt)

(***************************************************************************)
(* Content negotiation (src/http_server.rs)                                *)
(***************************************************************************)
\* A QMediaType: a media type (top, sub, number of parameters) and its
\* optional quality weight, counted in tenths.
MediaTypes ==
    {[top |-> "application", sub |-> "openmetrics-text"], [top |-> "application", sub |-> "*"],
     [top |-> "text", sub |-> "plain"], [top |-> "text", sub |-> "*"],
     [top |-> "text", sub |-> "html"], [top |-> "*", sub |-> "*"]}
Weights == {None, Some(5), Some(9)}
QMediaTypes ==
    {[top |-> m.top, sub |-> m.sub, params |-> 0, weight |-> w] : m \in MediaTypes, w \in Weights}
    \cup {[top |-> m.top, sub |-> m.sub, params |-> 1, weight |-> Some(9)] :
             m \in {[top |-> "application", sub |-> "openmetrics-text"],
                    [top |-> "text", sub |-> "plain"]}}
Accepts == UNION {[1 .. n -> QMediaTypes] : n \in 0 .. MaxAccept}

\* Ord::cmp on numbers, and Ordering::then_with.
cmp(a, b) == IF a < b THEN "Less" ELSE IF a > b THEN "Greater" ELSE "Equal"
then_with(ordering, next) == IF ordering = "Equal" THEN next ELSE ordering

\* MediaType::specificity: one for a top-level type that is not *, one for a
\* subtype that is not *.
specificity(media_type) ==
    (IF media_type.top # "*" THEN 1 ELSE 0) + (IF media_type.sub # "*" THEN 1 ELSE 0)

\* The closure sort_by is given, lines 267-283.
compare(left, right) ==
    then_with(
        then_with(
            IF right.weight = None
            THEN "Greater"
            ELSE IF left.weight = None
                 THEN "Less"
                 ELSE cmp(CHOOSE w \in right.weight : TRUE, CHOOSE w \in left.weight : TRUE),
            cmp(specificity(right), specificity(left))),
        cmp(right.params, left.params))

\* slice::sort_by on a short slice: a stable insertion sort, which moves an
\* element to the left past the elements it is Less than.
RECURSIVE insert_tail(_, _)
insert_tail(prefix, x) ==
    IF prefix # <<>> /\ compare(x, prefix[Len(prefix)]) = "Less"
    THEN Append(insert_tail(SubSeq(prefix, 1, Len(prefix) - 1), x), prefix[Len(prefix)])
    ELSE Append(prefix, x)

RECURSIVE sort_by(_, _)
sort_by(v, n) == IF n = 0 THEN <<>> ELSE insert_tail(sort_by(v, n - 1), v[n])

sort_media_types_by_priority(entries) == sort_by(entries, Len(entries))

\* MEDIA_TYPE_FORMATS, in its order.
MEDIA_TYPE_FORMATS ==
    <<[media_type |-> [top |-> "application", sub |-> "openmetrics-text"], format |-> "OpenMetrics"],
      [media_type |-> [top |-> "text", sub |-> "plain"], format |-> "Prometheus"]>>

\* media_type_matches; MediaType's == compares top and sub.
media_type_matches_Wildcard(left, right) ==
    \/ left.top = right.top /\ left.sub = right.sub
    \/ left.top = right.top /\ (left.sub = "*" \/ right.sub = "*")
    \/ right.top = "*"

media_type_matches(left, right) ==
    \/ left.top = right.top /\ left.sub = right.sub
    \/ left.top = right.top /\ (left.sub = "*" \/ right.sub = "*")

\* Iterator::find_map over MEDIA_TYPE_FORMATS for one given media type.
format_of(given) ==
    LET hits == {i \in DOMAIN MEDIA_TYPE_FORMATS :
                    media_type_matches(MEDIA_TYPE_FORMATS[i].media_type, given)}
    IN  IF hits = {} THEN None
        ELSE Some(MEDIA_TYPE_FORMATS[CHOOSE i \in hits : \A j \in hits : i <= j].format)

\* get_metrics_format: the format of the first sorted entry that has one.
walk(sorted) ==
    LET hits == {i \in DOMAIN sorted : format_of(sorted[i]) # None}
    IN  IF hits = {} THEN None
        ELSE format_of(sorted[CHOOSE i \in hits : \A j \in hits : i <= j])

get_metrics_format ==
    /\ negotiated = None
    /\ media_types_by_priority' = Some(sort_media_types_by_priority(accept))
    /\ negotiated' = Some(unwrap_or(walk(sort_media_types_by_priority(accept)), "Prometheus"))
    /\ UNCHANGED accept
    /\ UNCHANGED <<authVars, httpVars, scrapeVars, configVars, stationVars, keyVars, metricsVars, serverVars, liveVars, dwdVars>>

NextAccept == get_metrics_format

(***************************************************************************)
(* The exposition of the records (src/prometheus.rs)                       *)
(***************************************************************************)
\* The records format_metrics may be given.
Weathers ==
    [source : {"org.example"}, location : {"A", "B"}, city : {"Some City"},
     coordinates : [latitude : {0, 1}, longitude : {0}],
     distance : {None, Some(100)}, temperature : {15, 25},
     relative_humidity : {None, Some(55)}]
WeatherLists == UNION {[1 .. n -> Weathers] : n \in 0 .. MaxWeathers}

\* wait_for_metrics, line 124: the collected records are formatted.
format_metrics_call ==
    /\ metrics = None
    /\ metrics' = Some(format_metrics(metrics_format, weathers))
    /\ UNCHANGED <<weathers, metrics_format>>
    /\ UNCHANGED <<authVars, httpVars, scrapeVars, configVars, stationVars, keyVars, acceptVars, serverVars, liveVars, dwdVars>>

NextFormat == format_metrics_call

(***************************************************************************)
(* The routes and their authentication (src/http_server.rs, src/bcrypt.rs) *)
(***************************************************************************)
NAME == "prometheus-weathermen"
NoExchange == [kind |-> "none"]

\* The credentials stores followed here hold at most the user joanna, with
\* any hash; the clients present no credentials or one of three.
ServerStores == {store \in CredentialsStores : DOMAIN store \subseteq {"joanna"}}
ServerAuths ==
    {[username |-> "joanna", password |-> "secret"],
     [username |-> "joanna", password |-> "incorrect"],
     [username |-> "mallory", password |-> "secret"]}
Presentable == {None} \cup {Some(a) : a \in ServerAuths}
ServerAccepts ==
    {<<>>, <<[top |-> "application", sub |-> "openmetrics-text", params |-> 0, weight |-> None]>>}

\* bcrypt.rs, get_cost: the third '$'-separated part as a number, kept when
\* it is at least 4.
get_cost(hash) ==
    IF hash.cost # None /\ unwrap_or(hash.cost, 0) >= 4 THEN hash.cost ELSE None

\* get_max_costs_from_credentials_store: map(get_cost).max().flatten().
get_max_costs_from_credentials_store(store) ==
    LET costs == UNION {get_cost(store[u]) : u \in DOMAIN store}
    IN  IF costs = {} THEN None ELSE Some(SetMax(costs))

\* bcrypt.rs, get_default_hash: bcrypt::hash(..).ok(), so None when bcrypt
\* refuses the cost. DEFAULT_PASSWORD and DEFAULT_COST have the values of
\* BCRYPT_DEFAULT_PASSWORD and BCRYPT_DEFAULT_COST.
get_default_hash(cost) ==
    IF bcrypt_hash_ok(unwrap_or(cost, BCRYPT_DEFAULT_COST))
    THEN Some([cost |-> Some(unwrap_or(cost, BCRYPT_DEFAULT_COST)),
               pw |-> BCRYPT_DEFAULT_PASSWORD])
    ELSE None

\* configure_rocket, lines 28-31: config.auth.and_then(|store|
\* get_default_hash(..).map(|default_hash| (store, default_hash))).
configured_credentials(auth) ==
    IF auth = None THEN None
    ELSE LET store == CHOOSE st \in auth : TRUE
             hash == get_default_hash(get_max_costs_from_credentials_store(store))
         IN  IF hash = None THEN None
             ELSE Some([store |-> store, default_hash |-> CHOOSE h \in hash : TRUE])

\* http_server.rs, authenticate: the outcome and the new cache entries.
http_server_authenticate(credentials, auth, hash_default, entries) ==
    LET key == <<auth.username, auth.password>> IN
    IF auth.username \in DOMAIN credentials
    THEN LET cached == entries[key]
             run == cached = "absent" \/ replace_if(cached)
             outcome == IF run
                        THEN verify_outcome(bcrypt_verify(auth.password,
                                                          credentials[auth.username]))
                        ELSE cached
         IN  [result |-> outcome, cache |-> [entries EXCEPT ![key] = outcome]]
    ELSE [result |-> "Forbidden", cache |-> entries]

\* http_server.rs, maybe_authenticate.
http_server_maybe_authenticate(configured, presented, entries) ==
    IF configured # None /\ presented # None
    THEN LET c == CHOOSE x \in configured : TRUE
         IN  http_server_authenticate(c.store, CHOOSE a \in presented : TRUE,
                                      c.default_hash, entries)
    ELSE IF configured # None
    THEN [result |-> "Unauthorized", cache |-> entries]
    ELSE [result |-> "NotRequired", cache |-> entries]

Granted == {"NotRequired", "Succeeded"}
Denied == {"Unauthorized", "Forbidden"}

\* An answer of a route: its status, its www-authenticate header if it has
\* one, and its body.
UnauthorizedResponse ==
    [status |-> 401,
     authenticate |-> Some("Basic realm=\"" \o NAME \o "\", charset=\"UTF-8\""),
     body |-> "Authentication required. No credentials provided"]
ForbiddenResponse ==
    [status |-> 403, authenticate |-> None, body |-> "Access denied. Invalid credentials"]

auth_error_to_response_Swapped(error) ==
    IF error = "Unauthorized" THEN ForbiddenResponse ELSE UnauthorizedResponse

auth_error_to_response(error) ==
    IF error = "Unauthorized" THEN UnauthorizedResponse ELSE ForbiddenResponse

\* GET /: 404 "Check /metrics" once authentication grants the request.
index(presented) ==
    /\ scrape = "idle"
    /\ LET r == http_server_maybe_authenticate(credentials_configured, presented,
                                               AUTHENTICATION_CACHE)
       IN  /\ AUTHENTICATION_CACHE' = r.cache
           /\ exchange' =
                [kind |-> "handled", route |-> "/", presented |-> presented,
                 authentication |-> r.result,
                 response |-> IF r.result \in Granted
                              THEN Some([status |-> 404, authenticate |-> None,
                                         body |-> "Check /metrics"])
                              ELSE Some(auth_error_to_response(r.result))]
    /\ UNCHANGED <<credentials_store, BCRYPT_DEFAULT_HASH, authLast, authReturned, authCalls>>
    /\ UNCHANGED <<config_auth, credentials_configured>>
    /\ UNCHANGED <<httpVars, scrapeVars, configVars, stationVars, keyVars, acceptVars, metricsVars, liveVars, dwdVars>>

\* GET /metrics: serve_metrics (lines 83-96: one blocking unit per task)
\* once authentication grants the request; its answer is then the one
\* serve_metrics gives.
metrics_SpawnFirst(presented) ==
    /\ scrape = "idle"
    /\ LET r == http_server_maybe_authenticate(credentials_configured, presented,
                                               AUTHENTICATION_CACHE)
       IN  /\ AUTHENTICATION_CACHE' = r.cache
           /\ exchange' =
                [kind |-> "handled", route |-> "/metrics", presented |-> presented,
                 authentication |-> r.result,
                 response |-> IF r.result \in Granted THEN None
                              ELSE Some(auth_error_to_response(r.result))]
           /\ format' = unwrap_or(walk(sort_media_types_by_priority(accept)), "Prometheus")
           /\ scrape' = IF r.result \in Granted THEN "waiting" ELSE "cancelled"
           /\ unit' = [task \in ProviderTasks |-> Running]
    /\ UNCHANGED <<joined, weather, response, stored, detached>>
    /\ UNCHANGED <<credentials_store, BCRYPT_DEFAULT_HASH, authLast, authReturned, authCalls>>
    /\ UNCHANGED <<config_auth, credentials_configured>>
    /\ UNCHANGED <<httpVars, configVars, stationVars, keyVars, acceptVars, metricsVars, liveVars, dwdVars>>

metrics_handler(presented) ==
    /\ scrape = "idle"
    /\ LET r == http_server_maybe_authenticate(credentials_configured, presented,
                                               AUTHENTICATION_CACHE)
       IN  /\ AUTHENTICATION_CACHE' = r.cache
           /\ exchange' =
                [kind |-> "handled", route |-> "/metrics", presented |-> presented,
                 authentication |-> r.result,
                 response |-> IF r.result \in Granted THEN None
                              ELSE Some(auth_error_to_response(r.result))]
           /\ IF r.result \in Granted
              THEN /\ format' = unwrap_or(walk(sort_media_types_by_priority(accept)),
                                          "Prometheus")
                   /\ scrape' = "waiting"
                   /\ unit' = [task \in ProviderTasks |-> Running]
              ELSE UNCHANGED <<format, scrape, unit>>
    /\ UNCHANGED <<joined, weather, response, stored, detached>>
    /\ UNCHANGED <<credentials_store, BCRYPT_DEFAULT_HASH, authLast, authReturned, authCalls>>
    /\ UNCHANGED <<config_auth, credentials_configured>>
    /\ UNCHANGED <<httpVars, configVars, stationVars, keyVars, acceptVars, metricsVars, liveVars, dwdVars>>

NextServer ==
    \/ \E presented \in Presentable : index(presented)
    \/ \E presented \in Presentable : metrics_handler(presented)
    \/ \E task \in ProviderTasks : \E outcome \in TaskOutcomes(task) : spawn_blocking(task, outcome)
    \/ \E task \in ProviderTasks : join_next(task)
    \/ \E encoded \in BOOLEAN : wait_for_metrics_done(encoded)

(***************************************************************************)
(* The registry's lock under concurrent units of work                      *)
(* (src/providers/http_request.rs, src/http_server.rs)                     *)
(***************************************************************************)
\* Each scrape spawns one unit of work per task; a unit calls request_cached
\* for the URL of its task. Two tasks, on two hosts.
LiveScrapes == 1 .. MaxScrapes
LiveUrls == {"https://a/1", "https://b/1"}
LiveThreads == LiveScrapes \X LiveUrls
LivePolicies == {"readers_first", "writers_first"}
LiveResponses ==
    {[status |-> "transport_error"], [status |-> "2xx", convertible |-> TRUE, body |-> "w1"]}

At(position) == {th \in LiveThreads : thread_pc[th] = position}
KeyOf(th) == <<"GET", th[2]>>

\* The read guards alive: a unit holds one from lines 136 or 192 until
\* request_url_with_circuit_breaker returns; it holds none while it waits
\* for the write lock (drop at line 146).
read_guards_KeptForWrite == At("in_flight") \cup At("write")

read_guards == At("in_flight")

\* RwLock::read: granted unless a writer holds the lock (the write section
\* is one step here) or, under a policy that prefers writers, waits for it.
may_read == rwlock_policy = "writers_first" => At("write") = {}

\* serve_metrics, lines 83-96: spawn the units of the scrape.
scrape_start(s) ==
    /\ live_scrape[s] = "idle"
    /\ live_scrape' = [live_scrape EXCEPT ![s] = "waiting"]
    /\ thread_pc' = [th \in LiveThreads |-> IF th[1] = s THEN "get" ELSE thread_pc[th]]
    /\ UNCHANGED rwlock_policy
    /\ UNCHANGED <<authVars, httpVars, scrapeVars, configVars, stationVars, keyVars, acceptVars, metricsVars, serverVars, dwdVars>>

\* request_cached, lines 99-129: a hit returns, a miss goes on to the registry.
unit_get(th) ==
    /\ thread_pc[th] = "get"
    /\ thread_pc' = [thread_pc EXCEPT ![th] =
                        IF cache_get(cache, KeyOf(th), time_to_live(refresh_interval), now) # None
                        THEN "done" ELSE "read"]
    /\ UNCHANGED <<live_scrape, rwlock_policy>>
    /\ UNCHANGED <<authVars, httpVars, scrapeVars, configVars, stationVars, keyVars, acceptVars, metricsVars, serverVars, dwdVars>>

\* circuit_breaker.call, first half, for a unit that holds a read guard.
unit_call(th) ==
    LET h == host_str(th[2])
        p == is_call_permitted(breaker[h], now)
    IN  /\ breaker' = [breaker EXCEPT ![h] = p.cb]
        /\ thread_pc' = [thread_pc EXCEPT ![th] = IF p.permitted THEN "in_flight" ELSE "done"]

\* request_cached, lines 136-147.
unit_read(th) ==
    /\ thread_pc[th] = "read"
    /\ may_read
    /\ IF host_str(th[2]) \in registry
       THEN unit_call(th)
       ELSE /\ thread_pc' = [thread_pc EXCEPT ![th] = "write"]
            /\ UNCHANGED breaker
    /\ UNCHANGED <<refresh_interval, request_urls, now, cache, registry, running, last, streak, calls, ticks>>
    /\ UNCHANGED <<live_scrape, rwlock_policy>>
    /\ UNCHANGED <<authVars, scrapeVars, configVars, stationVars, keyVars, acceptVars, metricsVars, serverVars, dwdVars>>

\* request_cached, lines 149-190: RwLock::write is granted once no read
\* guard is alive.
unit_write(th) ==
    /\ thread_pc[th] = "write"
    /\ read_guards = {}
    /\ IF host_str(th[2]) \in registry
       THEN UNCHANGED <<registry, breaker>>
       ELSE /\ registry' = registry \cup {host_str(th[2])}
            /\ breaker' = [breaker EXCEPT ![host_str(th[2])] = new_circuit_breaker]
    /\ thread_pc' = [thread_pc EXCEPT ![th] = "read_again"]
    /\ UNCHANGED <<refresh_interval, request_urls, now, cache, running, last, streak, calls, ticks>>
    /\ UNCHANGED <<live_scrape, rwlock_policy>>
    /\ UNCHANGED <<authVars, scrapeVars, configVars, stationVars, keyVars, acceptVars, metricsVars, serverVars, dwdVars>>

\* request_cached, lines 192-207.
unit_read_again(th) ==
    /\ thread_pc[th] = "read_again"
    /\ may_read
    /\ unit_call(th)
    /\ UNCHANGED <<refresh_interval, request_urls, now, cache, registry, running, last, streak, calls, ticks>>
    /\ UNCHANGED <<live_scrape, rwlock_policy>>
    /\ UNCHANGED <<authVars, scrapeVars, configVars, stationVars, keyVars, acceptVars, metricsVars, serverVars, dwdVars>>

\* The upstream call returns, and request_url_with_circuit_breaker with it;
\* the read guard is dropped.
unit_return(th, upstream) ==
    /\ thread_pc[th] = "in_flight"
    /\ IF ~request_url(upstream).ok
       THEN /\ breaker' = [breaker EXCEPT ![host_str(th[2])] = on_error(@, now)]
            /\ cache' = cache
       ELSE /\ breaker' = [breaker EXCEPT ![host_str(th[2])] = on_success(@)]
            /\ cache' = [cache EXCEPT ![KeyOf(th)] =
                            Some([body |-> upstream.body, stored |-> now])]
    /\ thread_pc' = [thread_pc EXCEPT ![th] = "done"]
    /\ UNCHANGED <<refresh_interval, request_urls, now, registry, running, last, streak, calls, ticks>>
    /\ UNCHANGED <<live_scrape, rwlock_policy>>
    /\ UNCHANGED <<authVars, scrapeVars, configVars, stationVars, keyVars, acceptVars, metricsVars, serverVars, dwdVars>>

\* wait_for_metrics and serve_metrics, lines 98-125: the join set is empty,
\* the scrape is answered.
scrape_respond(s) ==
    /\ live_scrape[s] = "waiting"
    /\ \A th \in LiveThreads : th[1] = s => thread_pc[th] = "done"
    /\ live_scrape' = [live_scrape EXCEPT ![s] = "responded"]
    /\ UNCHANGED <<thread_pc, rwlock_policy>>
    /\ UNCHANGED <<authVars, httpVars, scrapeVars, configVars, stationVars, keyVars, acceptVars, metricsVars, serverVars, dwdVars>>

\* The steps of one unit of work.
unit_step(th) ==
    \/ unit_get(th)
    \/ unit_read(th)
    \/ unit_write(th)
    \/ unit_read_again(th)
    \/ \E upstream \in LiveResponses : unit_return(th, upstream)

NextLive ==
    \/ \E s \in LiveScrapes : scrape_start(s)
    \/ \E th \in LiveThreads : unit_get(th)
    \/ \E th \in LiveThreads : unit_read(th)
    \/ \E th \in LiveThreads : unit_write(th)
    \/ \E th \in LiveThreads : unit_read_again(th)
    \/ \E th \in LiveThreads, upstream \in LiveResponses : unit_return(th, upstream)
    \/ \E s \in LiveScrapes : scrape_respond(s)

(***************************************************************************)
(* The data lines of the DWD station list                                  *)
(* (src/providers/deutscher_wetterdienst.rs)                               *)
(***************************************************************************)
\* A line is a sequence of characters. The characters of the lines checked:
\* a space, a digit, a dot, a letter and a comma.
LineChars == {" ", "1", ".", "a", ","}

\* The data lines: they begin with the station id, a number.
DataLines ==
    UNION {{l \in [1 .. n -> LineChars] : l[1] = "1"} : n \in 1 .. MaxLine}

\* char::is_ascii_digit.
is_ascii_digit(c) == c \in {"0", "1", "2", "3", "4", "5", "6", "7", "8", "9"}

\* parse_weather_station_list_csv: the delimiter of the fields.
delimiter == "%"

\* `while chars.next_if_eq(&' ').is_some() {}`: the position of the first
\* character from i on that is not a space.
RECURSIVE next_if_eq_space(_, _)
next_if_eq_space(line, i) ==
    IF i <= Len(line) /\ line[i] = " " THEN next_if_eq_space(line, i + 1) ELSE i

\* The loop of fix_weather_stations_format_line from character i on, with
\* the value numeric_column has there. In Rust && binds tighter than ||.
RECURSIVE fix_from(_, _, _, _)
fix_from(line, delim, i, numeric_column) ==
    IF i > Len(line) THEN <<>>
    ELSE LET cur == line[i]
             next_space == i + 1 <= Len(line) /\ line[i + 1] = " "
         IN  IF cur = " " /\ (next_space \/ numeric_column)
             THEN LET rest == next_if_eq_space(line, i + 1)
                  IN  (IF rest <= Len(line) THEN <<delim>> ELSE <<>>)
                          \o fix_from(line, delim, rest, TRUE)
             ELSE <<cur>> \o fix_from(line, delim, i + 1,
                                      (numeric_column /\ is_ascii_digit(cur)) \/ cur = ".")

fix_weather_stations_format_line(line, delim) == fix_from(line, delim, 1, TRUE)

\* weather_station_format_to_csv, line 48: a data line is rewritten.
weather_station_format_to_csv ==
    /\ fixed_line = None
    /\ fixed_line' = Some(fix_weather_stations_format_line(catalog_line, delimiter))
    /\ UNCHANGED <<catalog_line, dwd_query, dwd_stations_answer, dwd_measurement_answer,
                   dwd_pc, dwd_requested, dwd_closest_station, dwd_result>>
    /\ UNCHANGED <<authVars, httpVars, scrapeVars, configVars, stationVars, keyVars, acceptVars, metricsVars, serverVars, liveVars>>

NextLine == weather_station_format_to_csv

(***************************************************************************)
(* One for_coordinates call of the DWD provider                            *)
(* (src/providers/deutscher_wetterdienst.rs)                               *)
(***************************************************************************)
SOURCE_URI == "de.dwd"

\* The coordinates asked for, and the station lists the first request may
\* give: two of the lists hold stations closer together than the tolerance
\* of Coordinate::eq.
DwdQueries == {[latitude |-> 0, longitude |-> 0], [latitude |-> 3, longitude |-> 0]}
DwdStationLists ==
    {<<>>, <<Station("s2"), Station("s1")>>, <<Station("s1"), Station("s3")>>,
     <<Station("s3"), Station("s4")>>}

\* What request_cached returns for the station list: the request fails (or
\* the breaker rejects it), the list cannot be parsed, or the parsed list.
DwdStationsAnswers ==
    {Err("request"), Err("Failed to parse weather station list CSV file")}
        \cup {[ok |-> TRUE, value |-> l] : l \in DwdStationLists}

\* struct Measurement: the fields the call reads, and a row that does not
\* deserialize.
Measurements ==
    [time : {1, 2},
     temperature_200_centimers : {10, 20},
     relative_humidity_200_centimeters : {50, 60}]
MalformedRow == [malformed |-> TRUE]
MeasurementCsvs ==
    UNION {[1 .. n -> Measurements \cup {MalformedRow}] : n \in 0 .. MaxRows}

\* What reqwest_cached_measurement_csv returns: the request fails, the ZIP
\* archive holds no measurement file, or the data rows of the file.
DwdMeasurementAnswers ==
    {Err("request"), Err("Could not find weather data file in ZIP archive")}
        \cup {[ok |-> TRUE, value |-> csv] : csv \in MeasurementCsvs}

\* parse_measurement_data_csv: the rows, or the error of the first row that
\* does not deserialize.
parse_measurement_data_csv(data) ==
    IF \E i \in 1 .. Len(data) : data[i] = MalformedRow
    THEN Err("deserialize")
    ELSE [ok |-> TRUE, value |-> data]

\* `[.., latest_measurement]`: the last element of the slice.
latest_measurement_Newest(measurements) ==
    measurements[CHOOSE i \in 1 .. Len(measurements) :
                     \A j \in 1 .. Len(measurements) :
                         \/ measurements[j].time < measurements[i].time
                         \/ measurements[j].time = measurements[i].time /\ i <= j]

latest_measurement(measurements) == measurements[Len(measurements)]

\* Lines 267-293: the record of the latest measurement, or the error of an
\* empty list. (location, city and distance are not followed here.)
weather_of(closest, measurements) ==
    IF measurements = <<>>
    THEN Err("Empty measurement list")
    ELSE [ok |-> TRUE,
          value |-> [source |-> SOURCE_URI,
                     coordinates |-> [latitude |-> closest.latitude,
                                      longitude |-> closest.longitude],
                     temperature |->
                         latest_measurement(measurements).temperature_200_centimers,
                     relative_humidity |->
                         Some(latest_measurement(measurements)
                                  .relative_humidity_200_centimeters)]]

\* for_coordinates, lines 245-261: the station list is requested and parsed
\* and the closest station looked up; each of the three ends the call with
\* its error (`?`).
for_coordinates_stations_First ==
    /\ dwd_pc = "start"
    /\ dwd_requested' = Append(dwd_requested, STATION_LIST_KEY)
    /\ IF ~dwd_stations_answer.ok
       THEN /\ dwd_result' = Some(dwd_stations_answer)
            /\ dwd_pc' = "done"
            /\ UNCHANGED dwd_closest_station
       ELSE IF dwd_stations_answer.value = <<>>
       THEN /\ dwd_result' = Some(Err("Could not find closest point"))
            /\ dwd_pc' = "done"
            /\ UNCHANGED dwd_closest_station
       ELSE /\ dwd_closest_station' = Some(dwd_stations_answer.value[1])
            /\ dwd_pc' = "stations"
            /\ UNCHANGED dwd_result
    /\ UNCHANGED <<catalog_line, fixed_line, dwd_query, dwd_stations_answer,
                   dwd_measurement_answer>>
    /\ UNCHANGED <<authVars, httpVars, scrapeVars, configVars, stationVars, keyVars, acceptVars, metricsVars, serverVars, liveVars>>

for_coordinates_stations ==
    /\ dwd_pc = "start"
    /\ dwd_requested' = Append(dwd_requested, STATION_LIST_KEY)
    /\ IF ~dwd_stations_answer.ok
       THEN /\ dwd_result' = Some(dwd_stations_answer)
            /\ dwd_pc' = "done"
            /\ UNCHANGED dwd_closest_station
       ELSE LET closest == find_closest_weather_station(dwd_query,
                                                        dwd_stations_answer.value)
            IN  IF ~closest.ok
                THEN /\ dwd_result' = Some(closest)
                     /\ dwd_pc' = "done"
                     /\ UNCHANGED dwd_closest_station
                ELSE /\ dwd_closest_station' = Some(closest.value)
                     /\ dwd_pc' = "stations"
                     /\ UNCHANGED dwd_result
    /\ UNCHANGED <<catalog_line, fixed_line, dwd_query, dwd_stations_answer,
                   dwd_measurement_answer>>
    /\ UNCHANGED <<authVars, httpVars, scrapeVars, configVars, stationVars, keyVars, acceptVars, metricsVars, serverVars, liveVars>>

\* for_coordinates, lines 263-293: the measurements of the closest station
\* are requested and parsed, and the call returns.
for_coordinates_measurements ==
    LET closest == CHOOSE st \in dwd_closest_station : TRUE
        measurement_csv == dwd_measurement_answer
        measurements == parse_measurement_data_csv(measurement_csv.value)
    IN  /\ dwd_pc = "stations"
        /\ dwd_requested' = Append(dwd_requested, measurement_key(closest.station_id))
        /\ dwd_result' =
              Some(IF ~measurement_csv.ok THEN measurement_csv
                   ELSE IF ~measurements.ok THEN measurements
                   ELSE weather_of(closest, measurements.value))
        /\ dwd_pc' = "done"
        /\ UNCHANGED <<catalog_line, fixed_line, dwd_query, dwd_stations_answer,
                       dwd_measurement_answer, dwd_closest_station>>
        /\ UNCHANGED <<authVars, httpVars, scrapeVars, configVars, stationVars, keyVars, acceptVars, metricsVars, serverVars, liveVars>>

NextDwd ==
    \/ for_coordinates_stations
    \/ for_coordinates_measurements

vars == <<authVars, httpVars, scrapeVars, configVars, moreVars>>

\* Every unit of work is scheduled (a thread of the blocking pool), every
\* upstream call returns, and the runtime polls a scrape whose units ended.
FairLive ==
    /\ \A th \in LiveThreads : WF_vars(unit_step(th))
    /\ \A s \in LiveScrapes : WF_vars(scrape_respond(s))

\* The state after construction, for concurrent request_cached calls: the
\* provider's refresh interval is configured or left to its default.
Init ==
    /\ credentials_store = None
    /\ AUTHENTICATION_CACHE = [p \in AuthPairs |-> "absent"]
    /\ BCRYPT_DEFAULT_HASH = None
    /\ authLast = NoCall
    /\ authReturned = [p \in AuthPairs |-> {}]
    /\ authCalls = 0
    /\ refresh_interval \in RefreshIntervals
    /\ request_urls = {"https://a/1", "https://a/2"}
    /\ now = 0
    /\ cache = [k \in Keys |-> None]
    /\ registry = {}
    /\ breaker = [h \in Hosts |-> new_circuit_breaker]
    /\ running = [c \in Calls |-> 0]
    /\ last = NoEvent
    /\ streak = [h \in Hosts |-> 0]
    /\ calls = 0
    /\ ticks = 0
    /\ scrape = "idle"
    /\ format = "Prometheus"
    /\ unit = [task \in ProviderTasks |-> Unspawned]
    /\ joined = {}
    /\ weather = <<>>
    /\ response = None
    /\ stored = {}
    /\ detached = {}
    /\ config = [providers |-> None, locations |-> <<>>]
    /\ build = [usize_bits |-> 16, overflow_checks |-> FALSE]
    /\ provider_tasks = None
    /\ coordinates = [latitude |-> 0, longitude |-> 0]
    /\ weather_stations = <<>>
    /\ closest_station = None
    /\ requests = [l \in {"berlin"} |-> [latitude |-> 0, longitude |-> 0]]
    /\ upstream_stations = <<>>
    /\ provider_cache = [p \in KeyProviders |-> [k \in ProviderKeys(p) |-> None]]
    /\ inserted = [p \in KeyProviders |-> {}]
    /\ dwd_station = [l \in {"berlin"} |-> None]
    /\ accept = <<>>
    /\ media_types_by_priority = None
    /\ negotiated = None
    /\ weathers = <<>>
    /\ metrics_format = "Prometheus"
    /\ metrics = None
    /\ config_auth = None
    /\ credentials_configured = None
    /\ exchange = NoExchange
    /\ live_scrape = [s \in LiveScrapes |-> "idle"]
    /\ thread_pc = [th \in LiveThreads |-> "unspawned"]
    /\ rwlock_policy = "readers_first"
    /\ catalog_line = <<>>
    /\ fixed_line = None
    /\ dwd_query = [latitude |-> 0, longitude |-> 0]
    /\ dwd_stations_answer = Err("request")
    /\ dwd_measurement_answer = Err("request")
    /\ dwd_pc = "start"
    /\ dwd_requested = <<>>
    /\ dwd_closest_station = None
    /\ dwd_result = None

\* The state after construction, for a provider that requests URLs on two
\* hosts.
InitHosts ==
    /\ credentials_store = None
    /\ AUTHENTICATION_CACHE = [p \in AuthPairs |-> "absent"]
    /\ BCRYPT_DEFAULT_HASH = None
    /\ authLast = NoCall
    /\ authReturned = [p \in AuthPairs |-> {}]
    /\ authCalls = 0
    /\ refresh_interval \in RefreshIntervals
    /\ request_urls = {"https://a/1", "https://b/1"}
    /\ now = 0
    /\ cache = [k \in Keys |-> None]
    /\ registry = {}
    /\ breaker = [h \in Hosts |-> new_circuit_breaker]
    /\ running = [c \in Calls |-> 0]
    /\ last = NoEvent
    /\ streak = [h \in Hosts |-> 0]
    /\ calls = 0
    /\ ticks = 0
    /\ scrape = "idle"
    /\ format = "Prometheus"
    /\ unit = [task \in ProviderTasks |-> Unspawned]
    /\ joined = {}
    /\ weather = <<>>
    /\ response = None
    /\ stored = {}
    /\ detached = {}
    /\ config = [providers |-> None, locations |-> <<>>]
    /\ build = [usize_bits |-> 16, overflow_checks |-> FALSE]
    /\ provider_tasks = None
    /\ coordinates = [latitude |-> 0, longitude |-> 0]
    /\ weather_stations = <<>>
    /\ closest_station = None
    /\ requests = [l \in {"berlin"} |-> [latitude |-> 0, longitude |-> 0]]
    /\ upstream_stations = <<>>
    /\ provider_cache = [p \in KeyProviders |-> [k \in ProviderKeys(p) |-> None]]
    /\ inserted = [p \in KeyProviders |-> {}]
    /\ dwd_station = [l \in {"berlin"} |-> None]
    /\ accept = <<>>
    /\ media_types_by_priority = None
    /\ negotiated = None
    /\ weathers = <<>>
    /\ metrics_format = "Prometheus"
    /\ metrics = None
    /\ config_auth = None
    /\ credentials_configured = None
    /\ exchange = NoExchange
    /\ live_scrape = [s \in LiveScrapes |-> "idle"]
    /\ thread_pc = [th \in LiveThreads |-> "unspawned"]
    /\ rwlock_policy = "readers_first"
    /\ catalog_line = <<>>
    /\ fixed_line = None
    /\ dwd_query = [latitude |-> 0, longitude |-> 0]
    /\ dwd_stations_answer = Err("request")
    /\ dwd_measurement_answer = Err("request")
    /\ dwd_pc = "start"
    /\ dwd_requested = <<>>
    /\ dwd_closest_station = None
    /\ dwd_result = None

\* The state after construction, for the authenticator: the configuration
\* has any credentials store, or none.
InitAuth ==
    /\ credentials_store \in {None} \cup {Some(s) : s \in CredentialsStores}
    /\ AUTHENTICATION_CACHE = [p \in AuthPairs |-> "absent"]
    /\ BCRYPT_DEFAULT_HASH = None
    /\ authLast = NoCall
    /\ authReturned = [p \in AuthPairs |-> {}]
    /\ authCalls = 0
    /\ refresh_interval = None
    /\ request_urls = {"https://a/1", "https://a/2"}
    /\ now = 0
    /\ cache = [k \in Keys |-> None]
    /\ registry = {}
    /\ breaker = [h \in Hosts |-> new_circuit_breaker]
    /\ running = [c \in Calls |-> 0]
    /\ last = NoEvent
    /\ streak = [h \in Hosts |-> 0]
    /\ calls = 0
    /\ ticks = 0
    /\ scrape = "idle"
    /\ format = "Prometheus"
    /\ unit = [task \in ProviderTasks |-> Unspawned]
    /\ joined = {}
    /\ weather = <<>>
    /\ response = None
    /\ stored = {}
    /\ detached = {}
    /\ config = [providers |-> None, locations |-> <<>>]
    /\ build = [usize_bits |-> 16, overflow_checks |-> FALSE]
    /\ provider_tasks = None
    /\ coordinates = [latitude |-> 0, longitude |-> 0]
    /\ weather_stations = <<>>
    /\ closest_station = None
    /\ requests = [l \in {"berlin"} |-> [latitude |-> 0, longitude |-> 0]]
    /\ upstream_stations = <<>>
    /\ provider_cache = [p \in KeyProviders |-> [k \in ProviderKeys(p) |-> None]]
    /\ inserted = [p \in KeyProviders |-> {}]
    /\ dwd_station = [l \in {"berlin"} |-> None]
    /\ accept = <<>>
    /\ media_types_by_priority = None
    /\ negotiated = None
    /\ weathers = <<>>
    /\ metrics_format = "Prometheus"
    /\ metrics = None
    /\ config_auth = None
    /\ credentials_configured = None
    /\ exchange = NoExchange
    /\ live_scrape = [s \in LiveScrapes |-> "idle"]
    /\ thread_pc = [th \in LiveThreads |-> "unspawned"]
    /\ rwlock_policy = "readers_first"
    /\ catalog_line = <<>>
    /\ fixed_line = None
    /\ dwd_query = [latitude |-> 0, longitude |-> 0]
    /\ dwd_stations_answer = Err("request")
    /\ dwd_measurement_answer = Err("request")
    /\ dwd_pc = "start"
    /\ dwd_requested = <<>>
    /\ dwd_closest_station = None
    /\ dwd_result = None

\* The state after construction, for a scrape in either format.
InitScrape ==
    /\ credentials_store = None
    /\ AUTHENTICATION_CACHE = [p \in AuthPairs |-> "absent"]
    /\ BCRYPT_DEFAULT_HASH = None
    /\ authLast = NoCall
    /\ authReturned = [p \in AuthPairs |-> {}]
    /\ authCalls = 0
    /\ refresh_interval = None
    /\ request_urls = {"https://a/1", "https://a/2"}
    /\ now = 0
    /\ cache = [k \in Keys |-> None]
    /\ registry = {}
    /\ breaker = [h \in Hosts |-> new_circuit_breaker]
    /\ running = [c \in Calls |-> 0]
    /\ last = NoEvent
    /\ streak = [h \in Hosts |-> 0]
    /\ calls = 0
    /\ ticks = 0
    /\ scrape = "idle"
    /\ format \in Formats
    /\ unit = [task \in ProviderTasks |-> Unspawned]
    /\ joined = {}
    /\ weather = <<>>
    /\ response = None
    /\ stored = {}
    /\ detached = {}
    /\ config = [providers |-> None, locations |-> <<>>]
    /\ build = [usize_bits |-> 16, overflow_checks |-> FALSE]
    /\ provider_tasks = None
    /\ coordinates = [latitude |-> 0, longitude |-> 0]
    /\ weather_stations = <<>>
    /\ closest_station = None
    /\ requests = [l \in {"berlin"} |-> [latitude |-> 0, longitude |-> 0]]
    /\ upstream_stations = <<>>
    /\ provider_cache = [p \in KeyProviders |-> [k \in ProviderKeys(p) |-> None]]
    /\ inserted = [p \in KeyProviders |-> {}]
    /\ dwd_station = [l \in {"berlin"} |-> None]
    /\ accept = <<>>
    /\ media_types_by_priority = None
    /\ negotiated = None
    /\ weathers = <<>>
    /\ metrics_format = "Prometheus"
    /\ metrics = None
    /\ config_auth = None
    /\ credentials_configured = None
    /\ exchange = NoExchange
    /\ live_scrape = [s \in LiveScrapes |-> "idle"]
    /\ thread_pc = [th \in LiveThreads |-> "unspawned"]
    /\ rwlock_policy = "readers_first"
    /\ catalog_line = <<>>
    /\ fixed_line = None
    /\ dwd_query = [latitude |-> 0, longitude |-> 0]
    /\ dwd_stations_answer = Err("request")
    /\ dwd_measurement_answer = Err("request")
    /\ dwd_pc = "start"
    /\ dwd_requested = <<>>
    /\ dwd_closest_station = None
    /\ dwd_result = None

\* The request cache and the breakers under concurrent request_cached calls.
\* The state at startup, for any configuration of providers and locations.
InitConfig ==
    /\ credentials_store = None
    /\ AUTHENTICATION_CACHE = [p \in AuthPairs |-> "absent"]
    /\ BCRYPT_DEFAULT_HASH = None
    /\ authLast = NoCall
    /\ authReturned = [p \in AuthPairs |-> {}]
    /\ authCalls = 0
    /\ refresh_interval = None
    /\ request_urls = {"https://a/1", "https://a/2"}
    /\ now = 0
    /\ cache = [k \in Keys |-> None]
    /\ registry = {}
    /\ breaker = [h \in Hosts |-> new_circuit_breaker]
    /\ running = [c \in Calls |-> 0]
    /\ last = NoEvent
    /\ streak = [h \in Hosts |-> 0]
    /\ calls = 0
    /\ ticks = 0
    /\ scrape = "idle"
    /\ format = "Prometheus"
    /\ unit = [task \in ProviderTasks |-> Unspawned]
    /\ joined = {}
    /\ weather = <<>>
    /\ response = None
    /\ stored = {}
    /\ detached = {}
    /\ config \in Configs
    /\ build \in Builds({16})
    /\ provider_tasks = None
    /\ coordinates = [latitude |-> 0, longitude |-> 0]
    /\ weather_stations = <<>>
    /\ closest_station = None
    /\ requests = [l \in {"berlin"} |-> [latitude |-> 0, longitude |-> 0]]
    /\ upstream_stations = <<>>
    /\ provider_cache = [p \in KeyProviders |-> [k \in ProviderKeys(p) |-> None]]
    /\ inserted = [p \in KeyProviders |-> {}]
    /\ dwd_station = [l \in {"berlin"} |-> None]
    /\ accept = <<>>
    /\ media_types_by_priority = None
    /\ negotiated = None
    /\ weathers = <<>>
    /\ metrics_format = "Prometheus"
    /\ metrics = None
    /\ config_auth = None
    /\ credentials_configured = None
    /\ exchange = NoExchange
    /\ live_scrape = [s \in LiveScrapes |-> "idle"]
    /\ thread_pc = [th \in LiveThreads |-> "unspawned"]
    /\ rwlock_policy = "readers_first"
    /\ catalog_line = <<>>
    /\ fixed_line = None
    /\ dwd_query = [latitude |-> 0, longitude |-> 0]
    /\ dwd_stations_answer = Err("request")
    /\ dwd_measurement_answer = Err("request")
    /\ dwd_pc = "start"
    /\ dwd_requested = <<>>
    /\ dwd_closest_station = None
    /\ dwd_result = None

\* The same on a build whose usize is scaled down to two bits, so that the
\* capacity of a cache for two locations overflows it.
InitOverflow ==
    /\ credentials_store = None
    /\ AUTHENTICATION_CACHE = [p \in AuthPairs |-> "absent"]
    /\ BCRYPT_DEFAULT_HASH = None
    /\ authLast = NoCall
    /\ authReturned = [p \in AuthPairs |-> {}]
    /\ authCalls = 0
    /\ refresh_interval = None
    /\ request_urls = {"https://a/1", "https://a/2"}
    /\ now = 0
    /\ cache = [k \in Keys |-> None]
    /\ registry = {}
    /\ breaker = [h \in Hosts |-> new_circuit_breaker]
    /\ running = [c \in Calls |-> 0]
    /\ last = NoEvent
    /\ streak = [h \in Hosts |-> 0]
    /\ calls = 0
    /\ ticks = 0
    /\ scrape = "idle"
    /\ format = "Prometheus"
    /\ unit = [task \in ProviderTasks |-> Unspawned]
    /\ joined = {}
    /\ weather = <<>>
    /\ response = None
    /\ stored = {}
    /\ detached = {}
    /\ config \in Configs
    /\ build \in Builds({2})
    /\ provider_tasks = None
    /\ coordinates = [latitude |-> 0, longitude |-> 0]
    /\ weather_stations = <<>>
    /\ closest_station = None
    /\ requests = [l \in {"berlin"} |-> [latitude |-> 0, longitude |-> 0]]
    /\ upstream_stations = <<>>
    /\ provider_cache = [p \in KeyProviders |-> [k \in ProviderKeys(p) |-> None]]
    /\ inserted = [p \in KeyProviders |-> {}]
    /\ dwd_station = [l \in {"berlin"} |-> None]
    /\ accept = <<>>
    /\ media_types_by_priority = None
    /\ negotiated = None
    /\ weathers = <<>>
    /\ metrics_format = "Prometheus"
    /\ metrics = None
    /\ config_auth = None
    /\ credentials_configured = None
    /\ exchange = NoExchange
    /\ live_scrape = [s \in LiveScrapes |-> "idle"]
    /\ thread_pc = [th \in LiveThreads |-> "unspawned"]
    /\ rwlock_policy = "readers_first"
    /\ catalog_line = <<>>
    /\ fixed_line = None
    /\ dwd_query = [latitude |-> 0, longitude |-> 0]
    /\ dwd_stations_answer = Err("request")
    /\ dwd_measurement_answer = Err("request")
    /\ dwd_pc = "start"
    /\ dwd_requested = <<>>
    /\ dwd_closest_station = None
    /\ dwd_result = None

\* A DWD task that has the station list and looks for the closest station.
InitStations ==
    /\ credentials_store = None
    /\ AUTHENTICATION_CACHE = [p \in AuthPairs |-> "absent"]
    /\ BCRYPT_DEFAULT_HASH = None
    /\ authLast = NoCall
    /\ authReturned = [p \in AuthPairs |-> {}]
    /\ authCalls = 0
    /\ refresh_interval = None
    /\ request_urls = {"https://a/1", "https://a/2"}
    /\ now = 0
    /\ cache = [k \in Keys |-> None]
    /\ registry = {}
    /\ breaker = [h \in Hosts |-> new_circuit_breaker]
    /\ running = [c \in Calls |-> 0]
    /\ last = NoEvent
    /\ streak = [h \in Hosts |-> 0]
    /\ calls = 0
    /\ ticks = 0
    /\ scrape = "idle"
    /\ format = "Prometheus"
    /\ unit = [task \in ProviderTasks |-> Unspawned]
    /\ joined = {}
    /\ weather = <<>>
    /\ response = None
    /\ stored = {}
    /\ detached = {}
    /\ config = [providers |-> None, locations |-> <<>>]
    /\ build = [usize_bits |-> 16, overflow_checks |-> FALSE]
    /\ provider_tasks = None
    /\ coordinates \in Points
    /\ weather_stations \in StationLists
    /\ closest_station = None
    /\ requests = [l \in {"berlin"} |-> [latitude |-> 0, longitude |-> 0]]
    /\ upstream_stations = <<>>
    /\ provider_cache = [p \in KeyProviders |-> [k \in ProviderKeys(p) |-> None]]
    /\ inserted = [p \in KeyProviders |-> {}]
    /\ dwd_station = [l \in {"berlin"} |-> None]
    /\ accept = <<>>
    /\ media_types_by_priority = None
    /\ negotiated = None
    /\ weathers = <<>>
    /\ metrics_format = "Prometheus"
    /\ metrics = None
    /\ config_auth = None
    /\ credentials_configured = None
    /\ exchange = NoExchange
    /\ live_scrape = [s \in LiveScrapes |-> "idle"]
    /\ thread_pc = [th \in LiveThreads |-> "unspawned"]
    /\ rwlock_policy = "readers_first"
    /\ catalog_line = <<>>
    /\ fixed_line = None
    /\ dwd_query = [latitude |-> 0, longitude |-> 0]
    /\ dwd_stations_answer = Err("request")
    /\ dwd_measurement_answer = Err("request")
    /\ dwd_pc = "start"
    /\ dwd_requested = <<>>
    /\ dwd_closest_station = None
    /\ dwd_result = None

\* A request to /metrics with any Accept header of the model.
InitAccept ==
    /\ credentials_store = None
    /\ AUTHENTICATION_CACHE = [p \in AuthPairs |-> "absent"]
    /\ BCRYPT_DEFAULT_HASH = None
    /\ authLast = NoCall
    /\ authReturned = [p \in AuthPairs |-> {}]
    /\ authCalls = 0
    /\ refresh_interval = None
    /\ request_urls = {"https://a/1", "https://a/2"}
    /\ now = 0
    /\ cache = [k \in Keys |-> None]
    /\ registry = {}
    /\ breaker = [h \in Hosts |-> new_circuit_breaker]
    /\ running = [c \in Calls |-> 0]
    /\ last = NoEvent
    /\ streak = [h \in Hosts |-> 0]
    /\ calls = 0
    /\ ticks = 0
    /\ scrape = "idle"
    /\ format = "Prometheus"
    /\ unit = [task \in ProviderTasks |-> Unspawned]
    /\ joined = {}
    /\ weather = <<>>
    /\ response = None
    /\ stored = {}
    /\ detached = {}
    /\ config = [providers |-> None, locations |-> <<>>]
    /\ build = [usize_bits |-> 16, overflow_checks |-> FALSE]
    /\ provider_tasks = None
    /\ coordinates = [latitude |-> 0, longitude |-> 0]
    /\ weather_stations = <<>>
    /\ closest_station = None
    /\ requests = [l \in {"berlin"} |-> [latitude |-> 0, longitude |-> 0]]
    /\ upstream_stations = <<>>
    /\ provider_cache = [p \in KeyProviders |-> [k \in ProviderKeys(p) |-> None]]
    /\ inserted = [p \in KeyProviders |-> {}]
    /\ dwd_station = [l \in {"berlin"} |-> None]
    /\ accept \in Accepts
    /\ media_types_by_priority = None
    /\ negotiated = None
    /\ weathers = <<>>
    /\ metrics_format = "Prometheus"
    /\ metrics = None
    /\ config_auth = None
    /\ credentials_configured = None
    /\ exchange = NoExchange
    /\ live_scrape = [s \in LiveScrapes |-> "idle"]
    /\ thread_pc = [th \in LiveThreads |-> "unspawned"]
    /\ rwlock_policy = "readers_first"
    /\ catalog_line = <<>>
    /\ fixed_line = None
    /\ dwd_query = [latitude |-> 0, longitude |-> 0]
    /\ dwd_stations_answer = Err("request")
    /\ dwd_measurement_answer = Err("request")
    /\ dwd_pc = "start"
    /\ dwd_requested = <<>>
    /\ dwd_closest_station = None
    /\ dwd_result = None

\* Any list of records, to be formatted in either format.
InitFormat ==
    /\ credentials_store = None
    /\ AUTHENTICATION_CACHE = [p \in AuthPairs |-> "absent"]
    /\ BCRYPT_DEFAULT_HASH = None
    /\ authLast = NoCall
    /\ authReturned = [p \in AuthPairs |-> {}]
    /\ authCalls = 0
    /\ refresh_interval = None
    /\ request_urls = {"https://a/1", "https://a/2"}
    /\ now = 0
    /\ cache = [k \in Keys |-> None]
    /\ registry = {}
    /\ breaker = [h \in Hosts |-> new_circuit_breaker]
    /\ running = [c \in Calls |-> 0]
    /\ last = NoEvent
    /\ streak = [h \in Hosts |-> 0]
    /\ calls = 0
    /\ ticks = 0
    /\ scrape = "idle"
    /\ format = "Prometheus"
    /\ unit = [task \in ProviderTasks |-> Unspawned]
    /\ joined = {}
    /\ weather = <<>>
    /\ response = None
    /\ stored = {}
    /\ detached = {}
    /\ config = [providers |-> None, locations |-> <<>>]
    /\ build = [usize_bits |-> 16, overflow_checks |-> FALSE]
    /\ provider_tasks = None
    /\ coordinates = [latitude |-> 0, longitude |-> 0]
    /\ weather_stations = <<>>
    /\ closest_station = None
    /\ requests = [l \in {"berlin"} |-> [latitude |-> 0, longitude |-> 0]]
    /\ upstream_stations = <<>>
    /\ provider_cache = [p \in KeyProviders |-> [k \in ProviderKeys(p) |-> None]]
    /\ inserted = [p \in KeyProviders |-> {}]
    /\ dwd_station = [l \in {"berlin"} |-> None]
    /\ accept = <<>>
    /\ media_types_by_priority = None
    /\ negotiated = None
    /\ weathers \in WeatherLists
    /\ metrics_format \in Formats
    /\ metrics = None
    /\ config_auth = None
    /\ credentials_configured = None
    /\ exchange = NoExchange
    /\ live_scrape = [s \in LiveScrapes |-> "idle"]
    /\ thread_pc = [th \in LiveThreads |-> "unspawned"]
    /\ rwlock_policy = "readers_first"
    /\ catalog_line = <<>>
    /\ fixed_line = None
    /\ dwd_query = [latitude |-> 0, longitude |-> 0]
    /\ dwd_stations_answer = Err("request")
    /\ dwd_measurement_answer = Err("request")
    /\ dwd_pc = "start"
    /\ dwd_requested = <<>>
    /\ dwd_closest_station = None
    /\ dwd_result = None

\* The tasks of two providers, scraped again and again while time passes
\* and the DWD changes its station list.
InitKeys ==
    /\ credentials_store = None
    /\ AUTHENTICATION_CACHE = [p \in AuthPairs |-> "absent"]
    /\ BCRYPT_DEFAULT_HASH = None
    /\ authLast = NoCall
    /\ authReturned = [p \in AuthPairs |-> {}]
    /\ authCalls = 0
    /\ refresh_interval \in RefreshIntervals
    /\ request_urls = {"https://a/1", "https://a/2"}
    /\ now = 0
    /\ cache = [k \in Keys |-> None]
    /\ registry = {}
    /\ breaker = [h \in Hosts |-> new_circuit_breaker]
    /\ running = [c \in Calls |-> 0]
    /\ last = NoEvent
    /\ streak = [h \in Hosts |-> 0]
    /\ calls = 0
    /\ ticks = 0
    /\ scrape = "idle"
    /\ format = "Prometheus"
    /\ unit = [task \in ProviderTasks |-> Unspawned]
    /\ joined = {}
    /\ weather = <<>>
    /\ response = None
    /\ stored = {}
    /\ detached = {}
    /\ config = [providers |-> None, locations |-> <<>>]
    /\ build = [usize_bits |-> 16, overflow_checks |-> FALSE]
    /\ provider_tasks = None
    /\ coordinates = [latitude |-> 0, longitude |-> 0]
    /\ weather_stations = <<>>
    /\ closest_station = None
    /\ requests \in RequestMaps
    /\ upstream_stations \in UpstreamLists
    /\ provider_cache = [p \in KeyProviders |-> [k \in ProviderKeys(p) |-> None]]
    /\ inserted = [p \in KeyProviders |-> {}]
    /\ dwd_station = [l \in DOMAIN requests |-> None]
    /\ accept = <<>>
    /\ media_types_by_priority = None
    /\ negotiated = None
    /\ weathers = <<>>
    /\ metrics_format = "Prometheus"
    /\ metrics = None
    /\ config_auth = None
    /\ credentials_configured = None
    /\ exchange = NoExchange
    /\ live_scrape = [s \in LiveScrapes |-> "idle"]
    /\ thread_pc = [th \in LiveThreads |-> "unspawned"]
    /\ rwlock_policy = "readers_first"
    /\ catalog_line = <<>>
    /\ fixed_line = None
    /\ dwd_query = [latitude |-> 0, longitude |-> 0]
    /\ dwd_stations_answer = Err("request")
    /\ dwd_measurement_answer = Err("request")
    /\ dwd_pc = "start"
    /\ dwd_requested = <<>>
    /\ dwd_closest_station = None
    /\ dwd_result = None

\* The routes, for any auth section of the configuration: the state once
\* configure_rocket has run.
InitServer ==
    /\ credentials_store = None
    /\ AUTHENTICATION_CACHE = [p \in AuthPairs |-> "absent"]
    /\ BCRYPT_DEFAULT_HASH = None
    /\ authLast = NoCall
    /\ authReturned = [p \in AuthPairs |-> {}]
    /\ authCalls = 0
    /\ refresh_interval = None
    /\ request_urls = {"https://a/1", "https://a/2"}
    /\ now = 0
    /\ cache = [k \in Keys |-> None]
    /\ registry = {}
    /\ breaker = [h \in Hosts |-> new_circuit_breaker]
    /\ running = [c \in Calls |-> 0]
    /\ last = NoEvent
    /\ streak = [h \in Hosts |-> 0]
    /\ calls = 0
    /\ ticks = 0
    /\ scrape = "idle"
    /\ format = "Prometheus"
    /\ unit = [task \in ProviderTasks |-> Unspawned]
    /\ joined = {}
    /\ weather = <<>>
    /\ response = None
    /\ stored = {}
    /\ detached = {}
    /\ config = [providers |-> None, locations |-> <<>>]
    /\ build = [usize_bits |-> 16, overflow_checks |-> FALSE]
    /\ provider_tasks = None
    /\ coordinates = [latitude |-> 0, longitude |-> 0]
    /\ weather_stations = <<>>
    /\ closest_station = None
    /\ requests = [l \in {"berlin"} |-> [latitude |-> 0, longitude |-> 0]]
    /\ upstream_stations = <<>>
    /\ provider_cache = [p \in KeyProviders |-> [k \in ProviderKeys(p) |-> None]]
    /\ inserted = [p \in KeyProviders |-> {}]
    /\ dwd_station = [l \in {"berlin"} |-> None]
    /\ accept \in ServerAccepts
    /\ media_types_by_priority = None
    /\ negotiated = None
    /\ weathers = <<>>
    /\ metrics_format = "Prometheus"
    /\ metrics = None
    /\ config_auth \in {None} \cup {Some(store) : store \in ServerStores}
    /\ credentials_configured = configured_credentials(config_auth)
    /\ exchange = NoExchange
    /\ live_scrape = [s \in LiveScrapes |-> "idle"]
    /\ thread_pc = [th \in LiveThreads |-> "unspawned"]
    /\ rwlock_policy = "readers_first"
    /\ catalog_line = <<>>
    /\ fixed_line = None
    /\ dwd_query = [latitude |-> 0, longitude |-> 0]
    /\ dwd_stations_answer = Err("request")
    /\ dwd_measurement_answer = Err("request")
    /\ dwd_pc = "start"
    /\ dwd_requested = <<>>
    /\ dwd_closest_station = None
    /\ dwd_result = None

\* Scrapes whose units call request_cached at the same time, under either
\* policy of the lock.
InitLive ==
    /\ credentials_store = None
    /\ AUTHENTICATION_CACHE = [p \in AuthPairs |-> "absent"]
    /\ BCRYPT_DEFAULT_HASH = None
    /\ authLast = NoCall
    /\ authReturned = [p \in AuthPairs |-> {}]
    /\ authCalls = 0
    /\ refresh_interval = None
    /\ request_urls = LiveUrls
    /\ now = 0
    /\ cache = [k \in Keys |-> None]
    /\ registry = {}
    /\ breaker = [h \in Hosts |-> new_circuit_breaker]
    /\ running = [c \in Calls |-> 0]
    /\ last = NoEvent
    /\ streak = [h \in Hosts |-> 0]
    /\ calls = 0
    /\ ticks = 0
    /\ scrape = "idle"
    /\ format = "Prometheus"
    /\ unit = [task \in ProviderTasks |-> Unspawned]
    /\ joined = {}
    /\ weather = <<>>
    /\ response = None
    /\ stored = {}
    /\ detached = {}
    /\ config = [providers |-> None, locations |-> <<>>]
    /\ build = [usize_bits |-> 16, overflow_checks |-> FALSE]
    /\ provider_tasks = None
    /\ coordinates = [latitude |-> 0, longitude |-> 0]
    /\ weather_stations = <<>>
    /\ closest_station = None
    /\ requests = [l \in {"berlin"} |-> [latitude |-> 0, longitude |-> 0]]
    /\ upstream_stations = <<>>
    /\ provider_cache = [p \in KeyProviders |-> [k \in ProviderKeys(p) |-> None]]
    /\ inserted = [p \in KeyProviders |-> {}]
    /\ dwd_station = [l \in {"berlin"} |-> None]
    /\ accept = <<>>
    /\ media_types_by_priority = None
    /\ negotiated = None
    /\ weathers = <<>>
    /\ metrics_format = "Prometheus"
    /\ metrics = None
    /\ config_auth = None
    /\ credentials_configured = None
    /\ exchange = NoExchange
    /\ live_scrape = [s \in LiveScrapes |-> "idle"]
    /\ thread_pc = [th \in LiveThreads |-> "unspawned"]
    /\ rwlock_policy \in LivePolicies
    /\ catalog_line = <<>>
    /\ fixed_line = None
    /\ dwd_query = [latitude |-> 0, longitude |-> 0]
    /\ dwd_stations_answer = Err("request")
    /\ dwd_measurement_answer = Err("request")
    /\ dwd_pc = "start"
    /\ dwd_requested = <<>>
    /\ dwd_closest_station = None
    /\ dwd_result = None

\* The request cache and the breakers under concurrent request_cached calls.
Spec == Init /\ [][Next]_vars

\* The same for requests to two hosts.
SpecHosts == InitHosts /\ [][Next]_vars

\* The authenticator on its own: everything else stays as constructed.
SpecAuth == InitAuth /\ [][NextAuth]_vars

\* Startup: the provider tasks are materialised from the configuration.
SpecConfig == InitConfig /\ [][NextConfig]_vars

\* Startup on the build with the narrow usize.
SpecOverflow == InitOverflow /\ [][NextConfig]_vars

\* One scrape: the fan-out over the provider tasks and its collection.
SpecScrape == InitScrape /\ [][NextScrape]_vars

\* The lookup of the closest station, for every request and station list.
SpecStations == InitStations /\ [][NextStations]_vars

\* The negotiation of the format, for every Accept header.
SpecAccept == InitAccept /\ [][NextAccept]_vars

\* The exposition, for every list of records and both formats.
SpecFormat == InitFormat /\ [][NextFormat]_vars

\* The cache keys the tasks of a provider insert over time.
SpecKeys == InitKeys /\ [][NextKeys]_vars

\* The requests to / and /metrics, and the scrape a granted request starts.
SpecServer == InitServer /\ [][NextServer]_vars

\* The units of work of concurrent scrapes, all of them scheduled.
SpecLive == InitLive /\ [][NextLive]_vars /\ FairLive

\* The state before a data line of the station list is rewritten.
InitLine ==
    /\ credentials_store = None
    /\ AUTHENTICATION_CACHE = [p \in AuthPairs |-> "absent"]
    /\ BCRYPT_DEFAULT_HASH = None
    /\ authLast = NoCall
    /\ authReturned = [p \in AuthPairs |-> {}]
    /\ authCalls = 0
    /\ refresh_interval = None
    /\ request_urls = {"https://a/1", "https://a/2"}
    /\ now = 0
    /\ cache = [k \in Keys |-> None]
    /\ registry = {}
    /\ breaker = [h \in Hosts |-> new_circuit_breaker]
    /\ running = [c \in Calls |-> 0]
    /\ last = NoEvent
    /\ streak = [h \in Hosts |-> 0]
    /\ calls = 0
    /\ ticks = 0
    /\ scrape = "idle"
    /\ format \in Formats
    /\ unit = [task \in ProviderTasks |-> Unspawned]
    /\ joined = {}
    /\ weather = <<>>
    /\ response = None
    /\ stored = {}
    /\ detached = {}
    /\ config = [providers |-> None, locations |-> <<>>]
    /\ build = [usize_bits |-> 16, overflow_checks |-> FALSE]
    /\ provider_tasks = None
    /\ coordinates = [latitude |-> 0, longitude |-> 0]
    /\ weather_stations = <<>>
    /\ closest_station = None
    /\ requests = [l \in {"berlin"} |-> [latitude |-> 0, longitude |-> 0]]
    /\ upstream_stations = <<>>
    /\ provider_cache = [p \in KeyProviders |-> [k \in ProviderKeys(p) |-> None]]
    /\ inserted = [p \in KeyProviders |-> {}]
    /\ dwd_station = [l \in {"berlin"} |-> None]
    /\ accept = <<>>
    /\ media_types_by_priority = None
    /\ negotiated = None
    /\ weathers = <<>>
    /\ metrics_format = "Prometheus"
    /\ metrics = None
    /\ config_auth = None
    /\ credentials_configured = None
    /\ exchange = NoExchange
    /\ live_scrape = [s \in LiveScrapes |-> "idle"]
    /\ thread_pc = [th \in LiveThreads |-> "unspawned"]
    /\ rwlock_policy = "readers_first"
    /\ catalog_line \in DataLines
    /\ fixed_line = None
    /\ dwd_query = [latitude |-> 0, longitude |-> 0]
    /\ dwd_stations_answer = Err("request")
    /\ dwd_measurement_answer = Err("request")
    /\ dwd_pc = "start"
    /\ dwd_requested = <<>>
    /\ dwd_closest_station = None
    /\ dwd_result = None

SpecLine == InitLine /\ [][NextLine]_vars

\* The state before a for_coordinates call of the DWD provider: what it asks for and what its two requests will give.
InitDwd ==
    /\ credentials_store = None
    /\ AUTHENTICATION_CACHE = [p \in AuthPairs |-> "absent"]
    /\ BCRYPT_DEFAULT_HASH = None
    /\ authLast = NoCall
    /\ authReturned = [p \in AuthPairs |-> {}]
    /\ authCalls = 0
    /\ refresh_interval = None
    /\ request_urls = {"https://a/1", "https://a/2"}
    /\ now = 0
    /\ cache = [k \in Keys |-> None]
    /\ registry = {}
    /\ breaker = [h \in Hosts |-> new_circuit_breaker]
    /\ running = [c \in Calls |-> 0]
    /\ last = NoEvent
    /\ streak = [h \in Hosts |-> 0]
    /\ calls = 0
    /\ ticks = 0
    /\ scrape = "idle"
    /\ format \in Formats
    /\ unit = [task \in ProviderTasks |-> Unspawned]
    /\ joined = {}
    /\ weather = <<>>
    /\ response = None
    /\ stored = {}
    /\ detached = {}
    /\ config = [providers |-> None, locations |-> <<>>]
    /\ build = [usize_bits |-> 16, overflow_checks |-> FALSE]
    /\ provider_tasks = None
    /\ coordinates = [latitude |-> 0, longitude |-> 0]
    /\ weather_stations = <<>>
    /\ closest_station = None
    /\ requests = [l \in {"berlin"} |-> [latitude |-> 0, longitude |-> 0]]
    /\ upstream_stations = <<>>
    /\ provider_cache = [p \in KeyProviders |-> [k \in ProviderKeys(p) |-> None]]
    /\ inserted = [p \in KeyProviders |-> {}]
    /\ dwd_station = [l \in {"berlin"} |-> None]
    /\ accept = <<>>
    /\ media_types_by_priority = None
    /\ negotiated = None
    /\ weathers = <<>>
    /\ metrics_format = "Prometheus"
    /\ metrics = None
    /\ config_auth = None
    /\ credentials_configured = None
    /\ exchange = NoExchange
    /\ live_scrape = [s \in LiveScrapes |-> "idle"]
    /\ thread_pc = [th \in LiveThreads |-> "unspawned"]
    /\ rwlock_policy = "readers_first"
    /\ catalog_line = <<>>
    /\ fixed_line = None
    /\ dwd_query \in DwdQueries
    /\ dwd_stations_answer \in DwdStationsAnswers
    /\ dwd_measurement_answer \in DwdMeasurementAnswers
    /\ dwd_pc = "start"
    /\ dwd_requested = <<>>
    /\ dwd_closest_station = None
    /\ dwd_result = None

SpecDwd == InitDwd /\ [][NextDwd]_vars

(***************************************************************************)
(* Properties of the authenticator                                         *)
(***************************************************************************)
TheStore == CHOOSE s \in credentials_store : TRUE
LastAuth == CHOOSE a \in authLast.presented : TRUE
LastIsCall == authLast.kind = "call"
LastIsAuthenticate ==
    LastIsCall /\ credentials_store # None /\ authLast.presented # None
LastKnownUser == LastIsAuthenticate /\ LastAuth.username \in DOMAIN TheStore
LastUnknownUser == LastIsAuthenticate /\ LastAuth.username \notin DOMAIN TheStore

\* C3: maybe_authenticate returns Succeeded only for a username of the store
\* whose stored hash verifies the presented password, and no pair that was
\* ever answered Forbidden is ever answered Succeeded (or the reverse).
C3_SucceededOnlyIfVerified ==
    /\ (LastIsCall /\ authLast.result = "Succeeded") =>
          /\ LastKnownUser
          /\ bcrypt_verify(LastAuth.password, TheStore[LastAuth.username]) = "true"
    /\ \A p \in AuthPairs : ~({"Forbidden", "Succeeded"} \subseteq authReturned[p])

\* A Succeeded answered from the cache, after some pair was answered Forbidden.
C3_Witness ==
    /\ LastIsCall /\ authLast.result = "Succeeded"
    /\ authLast.cachedBefore = "Succeeded"
    /\ \E p \in AuthPairs : "Forbidden" \in authReturned[p]

\* C4: the result of maybe_authenticate is NotRequired without a store,
\* Unauthorized with a store and no credentials, Succeeded for a username of
\* the store whose hash verifies the password, and Forbidden otherwise.
C4_ResultTable ==
    LastIsCall =>
        authLast.result =
            IF credentials_store = None THEN "NotRequired"
            ELSE IF authLast.presented = None THEN "Unauthorized"
            ELSE IF /\ LastAuth.username \in DOMAIN TheStore
                    /\ bcrypt_verify(LastAuth.password, TheStore[LastAuth.username]) = "true"
                 THEN "Succeeded"
            ELSE "Forbidden"

\* A call answered Forbidden because bcrypt could not verify the stored hash.
C4_Witness ==
    /\ LastKnownUser
    /\ bcrypt_verify(LastAuth.password, TheStore[LastAuth.username]) = "Err"
    /\ authLast.result = "Forbidden"

\* C5 as stated: for a username that is not in the store, exactly one bcrypt
\* verification runs, against a sentinel hash whose cost is the maximum cost
\* among the stored hashes, and the result is Forbidden.
C5_SentinelCostIsMaxCost ==
    LastUnknownUser =>
        /\ Len(authLast.verified) = 1
        /\ authLast.verified[1].cost = max_cost(TheStore)
        /\ authLast.result = "Forbidden"

\* C5 amended: for a username that is not in the store, exactly one bcrypt
\* verification runs, against a hash of the sentinel password whose cost is
\* the maximum cost among the stored hashes when that cost is one bcrypt
\* allows (4..31) and the default cost 12 otherwise; the result is Forbidden
\* whatever the verification yields; a first attempt for a username of the
\* store runs exactly one verification too.
C5_SentinelCostAmended ==
    /\ LastUnknownUser =>
          /\ Len(authLast.verified) = 1
          /\ authLast.verified[1].pw = BCRYPT_DEFAULT_PASSWORD
          /\ authLast.verified[1].cost =
                LET m == max_cost(TheStore)
                IN  IF m # None /\ (\A c \in m : c >= BCRYPT_MIN_COST /\ c <= BCRYPT_MAX_COST)
                    THEN m ELSE Some(BCRYPT_DEFAULT_COST)
          /\ authLast.result = "Forbidden"
          /\ BCRYPT_DEFAULT_HASH = Some(authLast.verified[1])
    /\ (LastKnownUser /\ authLast.cachedBefore = "absent") =>
          Len(authLast.verified) = 1

\* An unknown user presenting the sentinel password, which the sentinel hash
\* of cost 5 (the maximum of the store) verifies, is answered Forbidden.
C5_Witness ==
    /\ LastUnknownUser
    /\ authLast.verified = <<[cost |-> Some(5), pw |-> BCRYPT_DEFAULT_PASSWORD]>>
    /\ LastAuth.password = BCRYPT_DEFAULT_PASSWORD
    /\ bcrypt_verify(LastAuth.password, authLast.verified[1]) = "true"
    /\ authLast.result = "Forbidden"

InFlight(key) == running[[pc |-> "in_flight", key |-> key]]
CachedEntry(key) == CHOOSE e \in cache[key] : TRUE
Interval == IF refresh_interval = None THEN 600 ELSE CHOOSE d \in refresh_interval : TRUE
BreakerOf(key) == breaker[host_str(key[2])]
\* The cache holds an entry for the key whose refresh interval has passed.
Expired(key) == cache[key] # None /\ now >= CachedEntry(key).stored + Interval

\* The steps of a request_cached call for a key, told by what they change.
Hit == calls' = calls + 1 /\ running' = running
Missed(key) == calls' = calls + 1 /\ running' = Enter([pc |-> "read", key |-> key])
Sent(key) == InFlight(key)' = InFlight(key) + 1
Rejected(key) ==
    \E p \in {"read", "read_again"} :
       /\ running[[pc |-> p, key |-> key]] > 0
       /\ running' = Leave([pc |-> p, key |-> key])
Returned(key) == InFlight(key)' = InFlight(key) - 1

\* C1: callers that run concurrently while the cache has no unexpired entry
\* for the key share a single upstream request: at no time are two upstream
\* requests for one key in flight.
C1_SingleFlight ==
    \A key \in Keys : InFlight(key) <= 1

\* C7: a call that finds an unexpired entry returns the deserialization of
\* the cached body, sends no upstream request and changes neither the
\* breaker (whatever its state) nor the registry, the lock or the cache.
C7_HitLeavesBreakerAlone ==
    [][Hit =>
          /\ last'.event = "hit"
          /\ cache[last'.key] # None
          /\ last'.result = (IF CachedEntry(last'.key).body = "garbage"
                             THEN [ok |-> FALSE, err |-> "deserialize"]
                             ELSE [ok |-> TRUE,
                                   value |-> [weather |-> CachedEntry(last'.key).body]])
          /\ UNCHANGED <<running, breaker, registry, cache, streak>>]_vars

\* A hit while the host's breaker is open.
C7_Witness ==
    /\ last.event = "hit"
    /\ host_str(last.key[2]) \in registry
    /\ breaker[host_str(last.key[2])].state = "open"
    /\ last.result.ok

C9_ErrorNotCached ==
    [][/\ (Hit /\ ~last'.result.ok) => cache' = cache
       /\ \A key \in Keys :
             ((Rejected(key) \/ Returned(key)) /\ ~last'.result.ok) =>
                cache'[key] = cache[key]]_vars

\* C10: a closed breaker opens only at the third consecutive upstream
\* failure of its host, a call is rejected only by an open breaker, and a
\* closed breaker (fewer than 3 failures since the last success) lets the
\* call through.
C10_OpensAfterThreeFailures ==
    [][/\ \A h \in Hosts :
             /\ (breaker[h].state = "closed" /\ breaker'[h].state = "open") =>
                   streak'[h] = 3
             /\ (breaker'[h].state = "closed") => streak'[h] < 3
       /\ \A key \in Keys :
             /\ Rejected(key) =>
                   /\ BreakerOf(key).state = "open"
                   /\ last'.result = [ok |-> FALSE, err |-> "rejected"]
                   /\ UNCHANGED <<breaker, streak>>
             /\ ((Sent(key) \/ Rejected(key)) /\ BreakerOf(key).state = "closed") =>
                   /\ Sent(key)
                   /\ streak[host_str(key[2])] < 3]_vars

\* A call rejected right after the third consecutive failure.
C10_Witness ==
    /\ last.event = "rejected"
    /\ \E h \in Hosts :
          /\ streak[h] = 3
          /\ breaker[h].state = "open"
          /\ breaker[h].consecutive_failures = 3

\* A call for the key reaches circuit_breaker.call at this step.
BreakerCall(key) == Sent(key) \/ Rejected(key)

\* C11: while the host's breaker is open and its window has not elapsed, a
\* call that has missed the cache is rejected: it returns the rejection,
\* sends no upstream request and changes neither the breaker (count, window)
\* nor the cache nor the registry.
C11_RejectedWithoutEffect ==
    [][\A key \in Keys :
          (/\ BreakerCall(key)
           /\ BreakerOf(key).state = "open"
           /\ now <= BreakerOf(key).until) =>
             /\ Rejected(key)
             /\ last' = [event |-> "rejected", result |-> [ok |-> FALSE, err |-> "rejected"]]
             /\ \A k \in Keys : InFlight(k)' = InFlight(k)
             /\ UNCHANGED <<breaker, cache, registry, streak>>]_vars

\* A call rejected within the second window (60 s) of a breaker that a
\* failed probe has re-opened.
C11_Witness ==
    /\ last.event = "rejected"
    /\ \E h \in Hosts :
          /\ breaker[h].state = "open"
          /\ breaker[h].attempt = 2
          /\ now <= breaker[h].until

\* The upstream request of a call for the key ends at this step, and the
\* breaker counts it as a failure (transport error, non-2xx status).
Failed(key) ==
    /\ Returned(key)
    /\ ~last'.result.ok
    /\ last'.result.err \in {"transport_error", "non_2xx"}
\* ... or as a success (a 2xx status, whatever becomes of the body).
Succeeded(key) == Returned(key) /\ ~Failed(key)

\* C12: once the window of an open breaker has elapsed the next call turns
\* the breaker half-open and is let through as the probe; while the breaker
\* is half-open no further call is let through; a successful probe closes
\* the breaker; a failed one re-opens it with a longer window (30 s first,
\* never more than 300 s).
C12_ExactlyOneProbe ==
    [][\A key \in Keys :
          /\ (BreakerCall(key) /\ BreakerOf(key).state = "open"
                /\ now > BreakerOf(key).until) =>
                (Sent(key) /\ BreakerOf(key)'.state = "half_open")
          /\ (BreakerCall(key) /\ BreakerOf(key).state = "half_open") => Rejected(key)
          /\ (Succeeded(key) /\ BreakerOf(key).state = "half_open") =>
                BreakerOf(key)'.state = "closed"
          /\ (Failed(key) /\ BreakerOf(key).state = "half_open") =>
                /\ BreakerOf(key)'.state = "open"
                /\ BreakerOf(key)'.delay > BreakerOf(key).delay
                /\ BreakerOf(key)'.delay <= 300
                /\ BreakerOf(key)'.until = now + BreakerOf(key)'.delay
          /\ (Failed(key) /\ BreakerOf(key).state = "closed"
                /\ BreakerOf(key)'.state = "open" /\ BreakerOf(key).attempt = 0) =>
                BreakerOf(key)'.delay = 30]_vars

\* C13: a transport error or a non-2xx status is one failure for the host's
\* breaker (a closed breaker counts it and opens at the third, a half-open
\* one re-opens, an open one stays as it is); a 2xx response whose body
\* fails conversion or deserialization is a success for the breaker: the
\* count is reset and the breaker does not open.
C13_OnlyRequestErrorsCount ==
    [][\A key \in Keys :
          /\ Failed(key) =>
                /\ streak'[host_str(key[2])] = streak[host_str(key[2])] + 1
                /\ BreakerOf(key).state = "closed" =>
                      /\ BreakerOf(key)'.consecutive_failures =
                            BreakerOf(key).consecutive_failures + 1
                      /\ (BreakerOf(key)'.state = "open") =
                            (BreakerOf(key).consecutive_failures + 1 >= 3)
                /\ BreakerOf(key).state = "half_open" => BreakerOf(key)'.state = "open"
                /\ BreakerOf(key).state = "open" => BreakerOf(key)' = BreakerOf(key)
          /\ (Returned(key) /\ ~last'.result.ok
                /\ last'.result.err \in {"to_string", "deserialize"}) =>
                /\ streak'[host_str(key[2])] = 0
                /\ BreakerOf(key)'.consecutive_failures = 0
                /\ BreakerOf(key)'.state =
                      (IF BreakerOf(key).state = "open" THEN "open" ELSE "closed")
                /\ BreakerOf(key)'.until = (IF BreakerOf(key).state = "half_open" THEN 0
                                            ELSE BreakerOf(key).until)]_vars

\* A body that does not deserialize has reset the count of a breaker that
\* three failures had opened while the request was in flight.
C13_Witness ==
    /\ last = [event |-> "returned", result |-> [ok |-> FALSE, err |-> "deserialize"]]
    /\ \E h \in Hosts :
          /\ breaker[h].state = "open"
          /\ breaker[h].consecutive_failures = 0

\* The host named in the URL of a key, read off the URL itself.
Authority(key) == IF key[2] \in {"https://a/1", "https://a/2"} THEN "a" ELSE "b"
KeyB == <<"GET", "https://b/1">>

C15_NoLockWhileInFlight ==
    /\ \A key \in Keys : InFlight(key) > 0 => readers = 0
    /\ \A key \in Keys : running[[pc |-> "write", key |-> key]] > 0 => readers = 0

\* A call for the key passes the write-locked section at this step.
Registering(key) ==
    /\ running[[pc |-> "write", key |-> key]] > 0
    /\ running' = Move([pc |-> "write", key |-> key], [pc |-> "read_again", key |-> key])

\* C16: a host gets its breaker, a fresh one, in the write-locked section of
\* a call for that host that finds none; a host that has a breaker keeps it:
\* it is never removed, and a later pass through the write-locked section
\* leaves it (and its failure count) as it is.
C16_OneBreakerPerHost ==
    [][\A h \in Hosts :
          /\ (h \in registry) => (h \in registry')
          /\ (h \notin registry /\ h \in registry') =>
                /\ breaker'[h] = new_circuit_breaker
                /\ \E key \in Keys : host_str(key[2]) = h /\ Registering(key)
          /\ (h \in registry /\ \E key \in Keys : Registering(key)) =>
                breaker'[h] = breaker[h]
          /\ (h \notin registry') => breaker'[h] = new_circuit_breaker]_vars

\* Of two first calls, one has failed upstream and returned; the other has
\* passed the write-locked section and found the counting breaker.
C16_Witness ==
    /\ calls = 2
    /\ Active = 1
    /\ \E key \in Keys :
          /\ running[[pc |-> "read_again", key |-> key]] = 1
          /\ host_str(key[2]) \in registry
          /\ breaker[host_str(key[2])].consecutive_failures = 1

(***************************************************************************)
(* Properties of the scrape                                                *)
(***************************************************************************)
TheResponse == CHOOSE r \in response : TRUE

\* C2: whatever way the provider call of a task fails, the response of the
\* scrape (unless the encoder itself failed) holds every record that the
\* units of the other tasks have returned successfully.
C2_FailureIsolated ==
    (scrape = "responded" /\ TheResponse.cause # "encoder") =>
        \A task \in ProviderTasks :
            unit[task].kind = "ok" =>
                /\ TheResponse.status = 200
                /\ [labels |-> Labels(unit[task].weather),
                    value |-> unit[task].weather.temperature]
                       \in TheResponse.body[1].samples

Finished(task) == unit[task].kind \in {"ok", "err", "panic"}
Successes == {task \in ProviderTasks : unit[task].kind = "ok"}

\* C17: when serve_metrics has produced its response, every unit of work it
\* spawned has ended (with success or failure), and the records handed to
\* the encoder are the results of the successful units, each once.
C17_ResponseAfterAllUnits ==
    (scrape = "responded") =>
        /\ \A task \in ProviderTasks : Finished(task)
        /\ Len(weather) = Cardinality(Successes)
        /\ {weather[i] : i \in 1 .. Len(weather)} =
              {unit[task].weather : task \in Successes}

\* C18: the scrape answers 500 only when the encoder fails; whatever the
\* units of the provider tasks end with, it answers 200.
C18_ServerErrorOnlyFromEncoder ==
    (scrape = "responded") =>
        /\ TheResponse.status \in {200, 500}
        /\ (TheResponse.status = 500) => (TheResponse.cause = "encoder")

TheTasks == (CHOOSE r \in provider_tasks : TRUE).tasks
TheCaches == (CHOOSE r \in provider_tasks : TRUE).caches
Configured == CHOOSE P \in config.providers : TRUE

\* C20: get_provider_tasks yields one task for each pair of a configured
\* provider and a configured location and no other task; two tasks have the
\* same cache exactly if they have the same provider; the capacity of a
\* provider's cache is the number of locations times the provider's
\* cache_cardinality.
C20_OneTaskPerPair ==
    (provider_tasks # None /\ config.providers # None) =>
        /\ (CHOOSE r \in provider_tasks : TRUE).ok
        /\ Len(TheTasks) = Cardinality(Configured) * Cardinality(DOMAIN config.locations)
        /\ \A p \in Configured, l \in DOMAIN config.locations :
              Cardinality({i \in DOMAIN TheTasks :
                              TheTasks[i].provider = p /\ TheTasks[i].location = l}) = 1
        /\ \A i, j \in DOMAIN TheTasks :
              (TheTasks[i].cache = TheTasks[j].cache) =
                 (TheTasks[i].provider = TheTasks[j].provider)
        /\ \A i \in DOMAIN TheTasks :
              /\ TheTasks[i].cache \in DOMAIN TheCaches
              /\ TheCaches[TheTasks[i].cache].max_capacity =
                    Cardinality(DOMAIN config.locations)
                       * (IF TheTasks[i].provider = "de.dwd" THEN 2 ELSE 1)

\* Three providers, one of them with cache_cardinality 2, and two
\* locations: six tasks on three caches.
C20_Witness ==
    /\ provider_tasks # None
    /\ config.providers = {ConfigurableProviders}
    /\ DOMAIN config.locations = LocationKeys
    /\ Len(TheTasks) = 6
    /\ Cardinality({TheTasks[i].cache : i \in DOMAIN TheTasks}) = 3
    /\ \E i \in DOMAIN TheTasks : TheCaches[TheTasks[i].cache].max_capacity = 4

Overflows ==
    \E p \in Configured :
        Cardinality(DOMAIN config.locations) * (IF p = "de.dwd" THEN 2 ELSE 1)
            >= 2 ^ build.usize_bits

TheClosest == CHOOSE r \in closest_station : TRUE
Distance(station) == euclidean_distance(point_of(station), point_of(coordinates))
MinimalAt(i) ==
    \A j \in DOMAIN weather_stations :
        Distance(weather_stations[i]) <= Distance(weather_stations[j])

\* C30: for a non-empty station list find_closest_weather_station returns a
\* station of the list at minimal planar distance to the requested
\* coordinates, the first such station in list order; for an empty list it
\* returns an error.
C30_ClosestStationIsNearest ==
    closest_station # None =>
        IF weather_stations = <<>>
        THEN ~TheClosest.ok
        ELSE /\ TheClosest.ok
             /\ \E i \in DOMAIN weather_stations :
                   /\ TheClosest.value = weather_stations[i]
                   /\ MinimalAt(i)
                   /\ \A j \in DOMAIN weather_stations : MinimalAt(j) => i <= j

(***************************************************************************)
(* Properties of the cache keys                                            *)
(***************************************************************************)
\* C22: the keys the tasks of a provider ever insert into its cache are at
\* most as many as the cache's capacity, the number of locations times the
\* provider's cache_cardinality, and so are the live keys of the cache.
C22_KeysWithinCapacity ==
    \A provider \in KeyProviders :
        /\ Cardinality(inserted[provider]) <= max_capacity(provider)
        /\ Cardinality(Live(provider)) <= max_capacity(provider)

(***************************************************************************)
(* Properties of the content negotiation                                   *)
(***************************************************************************)
Sorted == CHOOSE v \in media_types_by_priority : TRUE
Occurrences(v, e) == Cardinality({i \in DOMAIN v : v[i] = e})
HasWeight(e) == e.weight # None
WeightOf(e) == CHOOSE w \in e.weight : TRUE

\* a comes strictly before b in the order by: no weight first, then
\* higher weight, then higher specificity, then more parameters.
StrictlyBefore(a, b) ==
    LET same_weight == HasWeight(a) = HasWeight(b)
                          /\ (HasWeight(a) => WeightOf(a) = WeightOf(b))
    IN  \/ ~HasWeight(a) /\ HasWeight(b)
        \/ HasWeight(a) /\ HasWeight(b) /\ WeightOf(a) > WeightOf(b)
        \/ same_weight /\ specificity(a) > specificity(b)
        \/ same_weight /\ specificity(a) = specificity(b) /\ a.params > b.params

\* C23: sort_media_types_by_priority returns a permutation of the Accept
\* entries in which no entry comes after one it is to precede: entries
\* without a weight first, then by descending weight, then (also among
\* entries that both lack a weight) by descending specificity, then by
\* descending parameter count.
C23_SortedByPriority ==
    media_types_by_priority # None =>
        /\ Len(Sorted) = Len(accept)
        /\ \A e \in QMediaTypes : Occurrences(Sorted, e) = Occurrences(accept, e)
        /\ \A i, j \in DOMAIN Sorted : i < j => ~StrictlyBefore(Sorted[j], Sorted[i])

Reverse(ordering) ==
    IF ordering = "Less" THEN "Greater" ELSE IF ordering = "Greater" THEN "Less" ELSE "Equal"
Entries == {accept[i] : i \in DOMAIN accept}

\* C24: the comparator of the sort is a total order on the entries:
\* compare(a, b) is the reverse of compare(b, a), so compare(a, a) is
\* Equal, and the comparator is transitive.
C24_ComparatorIsTotalOrder ==
    media_types_by_priority # None =>
        /\ \A a, b \in Entries : compare(a, b) = Reverse(compare(b, a))
        /\ \A a, b, c \in Entries :
              (compare(a, b) # "Greater" /\ compare(b, c) # "Greater")
                  => compare(a, c) # "Greater"

IsOpenMetrics(e) == e.top = "application" /\ e.sub \in {"openmetrics-text", "*"}
IsPrometheus(e) == e.top = "text" /\ e.sub \in {"plain", "*"}
Supported == {i \in DOMAIN Sorted : IsOpenMetrics(Sorted[i]) \/ IsPrometheus(Sorted[i])}
FirstSupported == CHOOSE i \in Supported : \A j \in Supported : i <= j

\* C25: get_metrics_format returns the format of the first sorted entry
\* that is application/openmetrics-text or application/* (OpenMetrics) or
\* text/plain or text/* (Prometheus); other entries are skipped, and
\* without such an entry the result is Prometheus.
C25_FirstSupportedDecides ==
    negotiated # None =>
        negotiated = Some(IF Supported = {} THEN "Prometheus"
                          ELSE IF IsOpenMetrics(Sorted[FirstSupported]) THEN "OpenMetrics"
                          ELSE "Prometheus")

\* An entry that matches nothing is skipped and a later one decides for
\* OpenMetrics.
C25_Witness ==
    /\ negotiated = Some("OpenMetrics")
    /\ Supported # {}
    /\ FirstSupported > 1
    /\ Sorted[1].top = "*"

\* C26: when */* comes, in sorted order, before every entry that matches
\* application/openmetrics-text, the result is Prometheus.
C26_FullWildcardDecides ==
    (/\ negotiated # None
     /\ \E w \in DOMAIN Sorted :
           /\ Sorted[w].top = "*" /\ Sorted[w].sub = "*"
           /\ \A i \in DOMAIN Sorted : IsOpenMetrics(Sorted[i]) => w < i)
        => negotiated = Some("Prometheus")

(***************************************************************************)
(* Properties of the exposition                                            *)
(***************************************************************************)
Body == CHOOSE b \in metrics : TRUE
IsEof(block) == DOMAIN block = {"text"} /\ block.text = "# EOF"
Blocks(name) == {i \in DOMAIN Body : ~IsEof(Body[i]) /\ Body[i].name = name}
SamplesOf(name) == UNION {Body[i].samples : i \in Blocks(name)}
Having(field) == {i \in DOMAIN weathers : weathers[i][field] # None}

C28_FamiliesEmittedLazily ==
    metrics # None =>
        /\ Cardinality(Blocks("weather_temperature_celsius")) = 1
        /\ Cardinality(Blocks("weather_relative_humidity_ratio"))
              = (IF Having("relative_humidity") # {} THEN 1 ELSE 0)
        /\ Cardinality(Blocks("weather_station_distance_meters"))
              = (IF Having("distance") # {} THEN 1 ELSE 0)
        /\ \A sample \in SamplesOf("weather_relative_humidity_ratio") :
              \E i \in Having("relative_humidity") :
                  /\ sample.labels = Labels(weathers[i])
                  /\ Some(sample.value) = weathers[i].relative_humidity
        /\ \A sample \in SamplesOf("weather_station_distance_meters") :
              \E i \in Having("distance") :
                  /\ sample.labels = Labels(weathers[i])
                  /\ Some(sample.value) = weathers[i].distance

\* Two records of which one has a humidity: the humidity family is there
\* once with one sample, the temperature family has both samples, and there
\* is no distance family.
C28_Witness ==
    /\ metrics # None
    /\ Len(weathers) = 2
    /\ Cardinality(Having("relative_humidity")) = 1
    /\ Having("distance") = {}
    /\ Cardinality(Blocks("weather_relative_humidity_ratio")) = 1
    /\ Cardinality(SamplesOf("weather_relative_humidity_ratio")) = 1
    /\ Cardinality(SamplesOf("weather_temperature_celsius")) = 2
    /\ Blocks("weather_station_distance_meters") = {}

\* C29, as claimed: the temperature family has as many samples as there are
\* records.
C29_SamplePerRecord ==
    metrics # None =>
        Cardinality(SamplesOf("weather_temperature_celsius")) = Len(weathers)

\* C29, as amended: the temperature family has exactly one sample for each
\* label set that occurs among the records, with the temperature of the
\* last record that has these labels; it has as many samples as there are
\* records when no two records have the same labels.
C29_SamplePerLabelSet ==
    metrics # None =>
        /\ {sample.labels : sample \in SamplesOf("weather_temperature_celsius")}
              = {Labels(weathers[i]) : i \in DOMAIN weathers}
        /\ \A s1, s2 \in SamplesOf("weather_temperature_celsius") :
              s1.labels = s2.labels => s1 = s2
        /\ \A i \in DOMAIN weathers :
              (\A j \in DOMAIN weathers : Labels(weathers[j]) = Labels(weathers[i]) => j <= i)
                  => [labels |-> Labels(weathers[i]), value |-> weathers[i].temperature]
                        \in SamplesOf("weather_temperature_celsius")
        /\ (\A i, j \in DOMAIN weathers : Labels(weathers[i]) = Labels(weathers[j]) => i = j)
              => Cardinality(SamplesOf("weather_temperature_celsius")) = Len(weathers)

\* Two records with the same labels and different temperatures: one sample,
\* with the temperature of the second.
C29_Witness ==
    /\ metrics # None
    /\ Len(weathers) = 2
    /\ Labels(weathers[1]) = Labels(weathers[2])
    /\ weathers[1].temperature # weathers[2].temperature
    /\ SamplesOf("weather_temperature_celsius")
          = {[labels |-> Labels(weathers[2]), value |-> weathers[2].temperature]}

(***************************************************************************)
(* Properties of the routes                                                *)
(***************************************************************************)
Answer == CHOOSE r \in exchange.response : TRUE
Handled == exchange.kind = "handled"
BasicChallenge == "Basic realm=\"prometheus-weathermen\", charset=\"UTF-8\""

\* C31: GET / and GET /metrics answer 401, with a WWW-Authenticate Basic
\* header, exactly when authentication yields Unauthorized, and 403 exactly
\* when it yields Forbidden; when authentication grants the request, GET /
\* answers 404 with the body "Check /metrics" and GET /metrics answers 200
\* or 500.
C31_StatusFollowsAuthentication ==
    /\ Handled =>
        /\ exchange.authentication = "Unauthorized"
              <=> (exchange.response # None /\ Answer.status = 401)
        /\ exchange.authentication = "Unauthorized"
              => Answer.authenticate = Some(BasicChallenge)
        /\ exchange.authentication = "Forbidden"
              <=> (exchange.response # None /\ Answer.status = 403)
        /\ exchange.authentication \in Granted /\ exchange.route = "/"
              => exchange.response # None /\ Answer.status = 404
                 /\ Answer.body = "Check /metrics"
        /\ exchange.authentication \in Granted /\ exchange.route = "/metrics"
              => exchange.response = None
    /\ response # None =>
        /\ Handled /\ exchange.route = "/metrics" /\ exchange.authentication \in Granted
        /\ TheResponse.status \in {200, 500}

\* A request to /metrics with the right password has been answered 200.
C31_Witness ==
    /\ Handled /\ exchange.route = "/metrics" /\ exchange.authentication = "Succeeded"
    /\ response # None /\ TheResponse.status = 200

WrongCredentials ==
    /\ exchange.presented # None
    /\ LET a == CHOOSE x \in exchange.presented : TRUE
           store == CHOOSE st \in config_auth : TRUE
       IN  ~(a.username \in DOMAIN store
             /\ bcrypt_verify(a.password, store[a.username]) = "true")

\* C35: when the configuration has an auth section, no request to / or
\* /metrics is treated as NotRequired: a request without credentials gets
\* 401 and a request with wrong credentials gets 403, whatever the stored
\* hashes are.
C35_AuthSectionEnforced ==
    config_auth # None /\ Handled =>
        /\ exchange.authentication # "NotRequired"
        /\ exchange.presented = None => exchange.response # None /\ Answer.status = 401
        /\ WrongCredentials => exchange.response # None /\ Answer.status = 403

\* C36: a GET /metrics request whose authentication is denied spawns no
\* provider task, sends no upstream request and changes no provider cache
\* and no circuit breaker.
C36_DeniedScrapeHasNoEffect ==
    [][exchange'.kind = "handled" /\ exchange'.route = "/metrics"
       /\ exchange'.authentication \in Denied
          => UNCHANGED <<scrapeVars, httpVars, keyVars>>]_vars

\* A request to /metrics with a wrong password was refused, and no unit of
\* work exists.
C36_Witness ==
    /\ Handled /\ exchange.route = "/metrics" /\ exchange.authentication = "Forbidden"
    /\ \A task \in ProviderTasks : unit[task] = Unspawned
    /\ AUTHENTICATION_CACHE[<<"joanna", "incorrect">>] = "Forbidden"

(***************************************************************************)
(* Properties of the authentication cache                                  *)
(***************************************************************************)
CachedPairs == {p \in AuthPairs : AUTHENTICATION_CACHE[p] # "absent"}

\* C38: every key (username, password) in the authentication cache has a
\* username that is in the credentials store, and an attempt with a username
\* that is not in the store leaves the cache as it is, so such attempts can
\* neither fill it nor evict from it.
C38_OnlyKnownUsersCached ==
    /\ [](\A p \in CachedPairs : credentials_store # None /\ p[1] \in DOMAIN TheStore)
    /\ [][LastUnknownUser' => AUTHENTICATION_CACHE' = AUTHENTICATION_CACHE]_vars

\* An attempt with an unknown username was made while the cache held an
\* entry of a known user.
C38_Witness ==
    /\ LastUnknownUser
    /\ CachedPairs # {}

(***************************************************************************)
(* Properties of the entries of the request cache                          *)
(***************************************************************************)
\* C37: every entry of the cache holds a body of an upstream response with
\* a 2xx status that passed the circuit breaker: an entry changes only in a
\* step in which a call that was in flight returns from a 2xx response, the
\* body of a non-2xx response is never stored, and a call the breaker
\* rejects stores nothing.
C37_OnlySuccessBodiesCached ==
    /\ [](\A key \in Keys : cache[key] # None => CachedEntry(key).body \in Bodies)
    /\ [][\A key \in Keys :
             /\ cache'[key] # cache[key] => Succeeded(key) /\ cache'[key] # None
             /\ (Rejected(key) \/ Failed(key)) => cache' = cache]_vars

\* A body is cached for one key, and the last call, for the other key, got
\* a non-2xx response while it was in flight.
C37_Witness ==
    /\ \E key \in Keys : cache[key] # None
    /\ \E key \in Keys : cache[key] = None
    /\ last.event = "returned" /\ ~last.result.ok /\ last.result.err = "non_2xx"

(***************************************************************************)
(* Progress of the units of work and of the scrapes                        *)
(***************************************************************************)
\* C39: under any interleaving of the units of work of concurrent scrapes,
\* and provided every upstream call returns, every request_cached call
\* returns and every scrape gets its response: the read and write locks of
\* the registry never block each other for good, also when several units
\* register breakers for new hosts at the same time. A unit makes one call
\* and a scrape is answered once, so this is: again and again no call is
\* in progress, and again and again no scrape waits.
C39_CallsAndScrapesEnd ==
    /\ []<>(\A th \in LiveThreads : thread_pc[th] \in {"unspawned", "done"})
    /\ []<>(\A s \in LiveScrapes : live_scrape[s] # "waiting")

\* Units of both hosts wait for the write lock, to register the breaker of
\* their host, while another unit holds a read guard during its upstream
\* call.
C39_Witness ==
    /\ \E th \in At("write") : host_str(th[2]) = "a" /\ "a" \notin registry
    /\ \E th \in At("write") : host_str(th[2]) = "b"
    /\ At("in_flight") # {}

(***************************************************************************)
(* Properties of the rewriting of the station list                         *)
(***************************************************************************)
TheFixedLine == CHOOSE f \in fixed_line : TRUE

\* Spaces at the end of a line are no part of a field.
RECURSIVE TrimEnd(_)
TrimEnd(l) ==
    IF l # <<>> /\ l[Len(l)] = " " THEN TrimEnd(SubSeq(l, 1, Len(l) - 1)) ELSE l

\* The fields C34 describes, from character i on: a field is a numeric column
\* until a character other than a digit or a dot occurs in it, and the name
\* from then on (in_name). A run of spaces is one delimiter when it is two or
\* more long or follows a numeric column, and a space of the name otherwise.
RECURSIVE FieldsAsDescribed(_, _, _)
FieldsAsDescribed(l, i, in_name) ==
    IF i > Len(l) THEN <<>>
    ELSE IF l[i] = " "
    THEN LET rest == next_if_eq_space(l, i)
         IN  IF rest - i >= 2 \/ ~in_name
             THEN (IF rest <= Len(l) THEN <<delimiter>> ELSE <<>>)
                      \o FieldsAsDescribed(l, rest, FALSE)
             ELSE <<" ">> \o FieldsAsDescribed(l, rest, TRUE)
    ELSE <<l[i]>> \o FieldsAsDescribed(l, i + 1,
                                       in_name \/ ~(is_ascii_digit(l[i]) \/ l[i] = "."))

\* C34: the rewritten data line has its delimiters where runs of spaces
\* follow a numeric column or are two or more long, one for each run and
\* none for spaces at the end, and every single space between two words of
\* the name is kept as a space, whatever characters the words are made of.
C34_NameStaysOneField ==
    fixed_line # None
        => TrimEnd(TheFixedLine) = TrimEnd(FieldsAsDescribed(catalog_line, 1, FALSE))

(***************************************************************************)
(* Properties of a for_coordinates call of the DWD provider                *)
(***************************************************************************)
TheDwdResult == CHOOSE r \in dwd_result : TRUE
DwdRows == dwd_measurement_answer.value
DwdSelection == find_closest_weather_station(dwd_query, dwd_stations_answer.value)

\* The call has returned after it was given a measurement CSV whose rows all
\* deserialize.
DwdCsvRead ==
    /\ dwd_pc = "done"
    /\ Len(dwd_requested) = 2
    /\ dwd_measurement_answer.ok
    /\ parse_measurement_data_csv(DwdRows).ok

\* C32: a call that read the measurement CSV returns the temperature and
\* the humidity of the last row of the file, whatever the times of the rows,
\* and returns an error when the file has no data row.
C32_LastRowInFileOrder ==
    DwdCsvRead =>
        IF DwdRows = <<>>
        THEN ~TheDwdResult.ok
        ELSE /\ TheDwdResult.ok
             /\ TheDwdResult.value.temperature
                    = DwdRows[Len(DwdRows)].temperature_200_centimers
             /\ TheDwdResult.value.relative_humidity
                    = Some(DwdRows[Len(DwdRows)].relative_humidity_200_centimeters)

\* A call has returned the values of a last row that is older than the row
\* before it and differs from it.
C32_Witness ==
    /\ DwdCsvRead
    /\ Len(DwdRows) = 2
    /\ DwdRows[1].time > DwdRows[2].time
    /\ DwdRows[1].temperature_200_centimers # DwdRows[2].temperature_200_centimers
    /\ DwdRows[1].relative_humidity_200_centimeters
           # DwdRows[2].relative_humidity_200_centimeters
    /\ TheDwdResult.ok

\* C33: the requests of one call are the station list and then, at most, one
\* measurement archive; the archive is requested only when the list was
\* obtained and parsed and a station was selected in it, and it is the
\* archive of that station.
C33_CatalogBeforeArchiveOfSelected ==
    /\ Len(dwd_requested) <= 2
    /\ Len(dwd_requested) >= 1 => dwd_requested[1] = STATION_LIST_KEY
    /\ Len(dwd_requested) = 2 =>
          /\ dwd_stations_answer.ok
          /\ DwdSelection.ok
          /\ dwd_requested[2] = measurement_key(DwdSelection.value.station_id)
    /\ dwd_pc = "done" /\ (~dwd_stations_answer.ok \/ ~DwdSelection.ok) =>
          /\ dwd_requested = <<STATION_LIST_KEY>>
          /\ ~TheDwdResult.ok

\* A call has requested the archive of the station selected in a list of
\* two stations, the second of the list.
C33_Witness ==
    /\ Len(dwd_requested) = 2
    /\ dwd_stations_answer.ok
    /\ Len(dwd_stations_answer.value) = 2
    /\ dwd_requested[2] = measurement_key(dwd_stations_answer.value[2].station_id)

====
